---- MODULE Spec2Model ----
(***************************************************************************)
(* Job-application assistant: the structured-info reconciler               *)
(* (services/gemini.py) and the content extractor (services/scraper.py).   *)
(*                                                                         *)
(* Text is a finite sequence of tokens.  A token stands for a fixed piece  *)
(* of text: a label such as "company:", a whitespace character, a brace, a *)
(* code fence, or a run of ordinary characters.  The regular expressions   *)
(* of the source are evaluated on these sequences the way the regex engine *)
(* evaluates them on characters (leftmost match, greedy with               *)
(* backtracking).                                                          *)
(***************************************************************************)
EXTENDS Naturals, Sequences, FiniteSets, TLC

VARIABLES
    jobText,      \* analyze_job_posting: argument job_content
    jobUrl,       \* analyze_job_posting: argument job_url
    aPc,          \* analyze_job_posting: "off", "idle", "got_text", "returned", "raised"
    aOutcome,     \* what the completion call did
    resultText,   \* the local result_text: [bound, text]
    aResult,      \* the value returned to the caller
    aPath,        \* which return statement produced aResult
    genCalls,     \* number of generate_content calls made
    sUrl,         \* scrape_job_posting: argument url
    sPc,          \* scrape_job_posting: "off", "idle", "requesting", "fetched", "returned"
    getLog,       \* the requests.get calls made, in order
    sResponse,    \* what requests.get did
    extraction,   \* the local content, with the step of the cascade it is from
    sResult,      \* the record returned to the caller
    cleanIn,      \* _clean_content: argument content
    cleanOuts,    \* the results of _clean_content, each applied to the one before
    template,     \* personalize_cover_letter: argument template
    pJobInfo,     \* personalize_cover_letter: argument job_info
    pPc,          \* personalize_cover_letter: "off", "idle", "failed", "returned", "raised"
    pOutcome,     \* what the completion call did
    pResult,      \* the string returned to the caller
    pPath,        \* which return statement produced pResult
    pCalls,       \* number of generate_content calls made
    request,      \* chat: the body of the POST request
    chatPc,       \* chat: "idle", "scraping", "analyzing", "personalizing", "answered"
    answer,       \* the answer of the route handler: HTTP code and status
    stages,       \* chat: the service calls started, in order
    tables,       \* the database file: have the tables been created
    templates,    \* the rows of table templates
    jobs,         \* the rows of table jobs
    sessions,     \* the rows of table sessions
    sqlite_sequence,  \* AUTOINCREMENT: the largest id ever used, per table
    now,          \* CURRENT_TIMESTAMP, in seconds
    dbReturn,     \* what the last Database method returned
    job_scraper,  \* the fields of the process-wide JobScraper instance
    gemini_service,   \* the fields of the process-wide GeminiService instance
    invocations   \* the locals of each pipeline invocation in flight

avars == <<jobText, jobUrl, aPc, aOutcome, resultText, aResult, aPath, genCalls>>

svars == <<sUrl, sPc, getLog, sResponse, extraction, sResult>>

cvars == <<cleanIn, cleanOuts>>

pvars == <<template, pJobInfo, pPc, pOutcome, pResult, pPath, pCalls>>

hvars == <<request, chatPc, answer, stages>>

dvars == <<tables, templates, jobs, sessions, sqlite_sequence, now, dbReturn>>

rvars == <<job_scraper, gemini_service, invocations>>

vars == <<avars, svars, cvars, pvars, hvars, dvars, rvars>>

(***************************************************************************)
(* Bounds of the model.                                                    *)
(***************************************************************************)
MaxJobText == 4      \* tokens in a job text
MaxResp == 4         \* tokens in an arbitrary model response
MaxAmble == 2        \* tokens in a preamble or postamble around a JSON object
MaxUrl == 5          \* tokens in a URL
MaxElems == 2        \* elements in a document
MaxClean == 7        \* tokens in a text given to _clean_content
MaxPasses == 2       \* times _clean_content is applied to its own result
MaxTemplate == 3     \* tokens in a cover-letter template
MaxReqs == 4         \* entries in a key_requirements list

SeqsUpTo(S, n) == UNION {[1..k -> S] : k \in 0..n}

Contains(s, t) == \E i \in 1..Len(s) : s[i] = t

(***************************************************************************)
(* str.strip(): whitespace removed at both ends.                           *)
(***************************************************************************)
WS == {" ", "\n"}

RECURSIVE LStrip(_)
LStrip(s) == IF s # <<>> /\ Head(s) \in WS THEN LStrip(Tail(s)) ELSE s

RECURSIVE RStrip(_)
RStrip(s) ==
    IF s # <<>> /\ s[Len(s)] \in WS THEN RStrip(SubSeq(s, 1, Len(s) - 1)) ELSE s

Strip(s) == RStrip(LStrip(s))

(***************************************************************************)
(* The fourteen fields of the schema.                                      *)
(***************************************************************************)
Keys ==
    {"company_name", "position_title", "department", "location", "job_type",
     "salary_range", "key_requirements", "preferred_skills",
     "company_description", "role_description", "benefits", "company_culture",
     "growth_opportunities", "remote_work"}

(***************************************************************************)
(* re.search(r'(?:a|b|c):\s*([^\n\r]+)', text, re.IGNORECASE).             *)
(* Lower folds the case of a label token; the search takes the leftmost    *)
(* label at which the rest of the pattern matches; \s* is greedy and gives *)
(* characters back until [^\n\r]+ finds a character that is no line break; *)
(* the group then runs to the end of that line.                            *)
(***************************************************************************)
Lower(t) ==
    CASE t = "Company:" -> "company:"
      [] t = "EMPLOYER:" -> "employer:"
      [] t = "Position:" -> "position:"
      [] t = "JOB:" -> "job:"
      [] OTHER -> t

IsLineBreak(t) == t = "\n"

\* length of the whitespace run that starts at index j
RECURSIVE WsRun(_, _)
WsRun(s, j) == IF j <= Len(s) /\ s[j] \in WS THEN 1 + WsRun(s, j + 1) ELSE 0

\* last index of the run of non-line-break tokens that starts at index j
RECURSIVE LineEnd(_, _)
LineEnd(s, j) ==
    IF j + 1 <= Len(s) /\ ~IsLineBreak(s[j + 1]) THEN LineEnd(s, j + 1) ELSE j

\* the regex tried at index i: the set of k (whitespace given to \s*) that match
MatchWidths(s, i, labels) ==
    IF Lower(s[i]) \in labels
    THEN {k \in 0..WsRun(s, i + 1) :
            i + 1 + k <= Len(s) /\ ~IsLineBreak(s[i + 1 + k])}
    ELSE {}

Max(S) == CHOOSE x \in S : \A y \in S : y <= x
Min(S) == CHOOSE x \in S : \A y \in S : x <= y

\* mutant: the search keeps the last label instead of the first
LabelSearchLast(s, labels) ==
    LET starts == {i \in 1..Len(s) : MatchWidths(s, i, labels) # {}}
    IN  IF starts = {}
        THEN [found |-> FALSE, group |-> <<>>]
        ELSE LET i == Max(starts)
                 j == i + 1 + Max(MatchWidths(s, i, labels))
             IN  [found |-> TRUE, group |-> SubSeq(s, j, LineEnd(s, j))]

LabelSearch(s, labels) ==
    LET starts == {i \in 1..Len(s) : MatchWidths(s, i, labels) # {}}
    IN  IF starts = {}
        THEN [found |-> FALSE, group |-> <<>>]
        ELSE LET i == Min(starts)
                 j == i + 1 + Max(MatchWidths(s, i, labels))
             IN  [found |-> TRUE, group |-> SubSeq(s, j, LineEnd(s, j))]

CompanyLabels == {"company:", "employer:", "organization:"}
TitleLabels == {"title:", "position:", "job:"}

(***************************************************************************)
(* _create_default_job_info.  A string is a token sequence ("" is <<>>), a *)
(* list of strings a sequence of them.                                     *)
(***************************************************************************)
DefaultField(k, job_content) ==
    LET company_match == LabelSearch(job_content, CompanyLabels)
        title_match == LabelSearch(job_content, TitleLabels)
    IN  CASE k = "company_name" ->
               IF company_match.found THEN Strip(company_match.group)
               ELSE <<"Company">>
          [] k = "position_title" ->
               IF title_match.found THEN Strip(title_match.group)
               ELSE <<"Position">>
          [] k = "department" -> <<>>
          [] k = "location" -> <<>>
          [] k = "job_type" -> <<>>
          [] k = "salary_range" -> <<>>
          [] k = "key_requirements" ->
               << <<"Professional experience">>,
                  <<"Strong communication skills">>,
                  <<"Team collaboration">> >>
          [] k = "preferred_skills" ->
               << <<"Industry knowledge">>, <<"Problem-solving">>,
                  <<"Adaptability">> >>
          [] k = "company_description" ->
               <<"A growing company focused on innovation and excellence">>
          [] k = "role_description" ->
               <<"An exciting opportunity to contribute to our team">>
          [] k = "benefits" ->
               << <<"Competitive salary">>, <<"Professional development">>,
                  <<"Team environment">> >>
          [] k = "company_culture" ->
               <<"Collaborative and inclusive work environment">>
          [] k = "growth_opportunities" ->
               <<"Opportunities for career advancement">>
          [] OTHER -> <<"Please inquire about remote work options">>

\* mutant: the record is built without its last key
DefaultJobInfoNoRemoteWork(job_content, job_url) ==
    [k \in Keys \ {"remote_work"} |-> DefaultField(k, job_content)]

\* mutant: the canned benefits list is left empty
DefaultJobInfoNoBenefits(job_content, job_url) ==
    [k \in Keys |-> IF k = "benefits" THEN <<>> ELSE DefaultField(k, job_content)]

\* mutant: the company description names the source URL
DefaultJobInfoNamesSource(job_content, job_url) ==
    [k \in Keys |-> IF k = "company_description" THEN job_url
                    ELSE DefaultField(k, job_content)]

DefaultJobInfo(job_content, job_url) ==
    [k \in Keys |-> DefaultField(k, job_content)]

(***************************************************************************)
(* _clean_json_response.                                                   *)
(*   "FENCE_JSON" the marker ```json, "FENCE" a bare ```, "{" "}" braces,  *)
(*   "m" the text of the fourteen members, "txt" other text without        *)
(*   braces, "null" the JSON literal, "M" the text of the fourteen members *)
(*   in which one string value holds the marker ```json and "m_cut"        *)
(*   that text with the marker taken out.                                  *)
(***************************************************************************)
\* re.sub(r'```json\s*', '', text): every marker with the whitespace after it
RECURSIVE StripJsonFences(_)
StripJsonFences(s) ==
    IF s = <<>> THEN <<>>
    ELSE IF Head(s) = "FENCE_JSON"
         THEN StripJsonFences(SubSeq(s, 2 + WsRun(s, 2), Len(s)))
         ELSE <<IF Head(s) = "M" THEN "m_cut" ELSE Head(s)>>
              \o StripJsonFences(Tail(s))

\* re.sub(r'```\s*$', '', text): a fence followed by nothing but whitespace
StripTrailingFence(s) ==
    LET ends == {i \in 1..Len(s) : s[i] = "FENCE" /\ i + WsRun(s, i + 1) = Len(s)}
    IN  IF ends = {} THEN s ELSE SubSeq(s, 1, Min(ends) - 1)

\* re.search(r'\{.*\}', text, re.DOTALL): first "{" to the last "}" after it
BraceSpan(s) ==
    LET opens == {i \in 1..Len(s) : s[i] = "{"}
        closes == {i \in 1..Len(s) : s[i] = "}"}
    IN  IF opens # {} /\ {j \in closes : j > Min(opens)} # {}
        THEN [found |-> TRUE, group |-> SubSeq(s, Min(opens), Max(closes))]
        ELSE [found |-> FALSE, group |-> <<>>]

\* mutant: the fences are stripped but the brace span is not searched for
CleanJsonResponseNoSearch(text) == StripTrailingFence(StripJsonFences(text))

CleanJsonResponse(text) ==
    LET t2 == StripTrailingFence(StripJsonFences(text))
        json_match == BraceSpan(t2)
    IN  IF json_match.found THEN json_match.group ELSE t2

(***************************************************************************)
(* json.loads.  Whitespace between tokens is insignificant.  A value is    *)
(* [kind, fields]: a dict with its fields, or None.                        *)
(***************************************************************************)
NoFields == [k \in {} |-> <<>>]

SampleJobInfo(culture) ==
    [k \in Keys |->
       CASE k = "company_name" -> <<"TechCorp Inc.">>
         [] k = "position_title" -> <<"Senior Software Engineer">>
         [] k \in {"key_requirements", "preferred_skills", "benefits"} ->
              << <<"Python">>, <<"AWS">> >>
         [] k = "company_culture" -> culture
         [] OTHER -> <<"text">>]

IsJsonWs(t) == t \in WS

ParseJson(c) ==
    LET body == SelectSeq(c, LAMBDA t : ~IsJsonWs(t))
    IN  CASE body = <<"{", "}">> ->
               [ok |-> TRUE, value |-> [kind |-> "dict", fields |-> NoFields]]
          [] body = <<"{", "m", "}">> ->
               [ok |-> TRUE,
                value |-> [kind |-> "dict",
                           fields |-> SampleJobInfo(<<"Innovative">>)]]
          [] body = <<"{", "M", "}">> ->
               [ok |-> TRUE,
                value |-> [kind |-> "dict",
                           fields |-> SampleJobInfo(<<"We post FENCE_JSON blocks">>)]]
          [] body = <<"{", "m_cut", "}">> ->
               [ok |-> TRUE,
                value |-> [kind |-> "dict",
                           fields |-> SampleJobInfo(<<"We post blocks">>)]]
          [] body = <<"null">> ->
               [ok |-> TRUE, value |-> [kind |-> "null", fields |-> NoFields]]
          [] OTHER ->
               [ok |-> FALSE, value |-> [kind |-> "none", fields |-> NoFields]]

(***************************************************************************)
(* Inputs.                                                                 *)
(***************************************************************************)
JobAlphabet == {"Company:", "employer:", "Position:", "job:", "x", " ", "\n"}
JobTexts == SeqsUpTo(JobAlphabet, MaxJobText)
\* the job texts under which every response is tried
ProbeJobTexts == {<<>>, <<"Company:", " ", "x", "\n">>}

AnalyzeUrls == {<<"https", ":", "//", "example.com">>, <<>>}

RespAlphabet == {"{", "}", "m", "txt", "FENCE_JSON", "FENCE", "\n", "null"}
AmbleAlphabet == {"txt", "\n", "{", "}"}
JsonObjects ==
    {<<"{", "}">>, <<"{", "m", "}">>, <<"{", "\n", "m", "\n", "}">>,
     <<"{", "M", "}">>}

NoParts == [pre |-> <<>>, obj |-> <<>>, post |-> <<>>, fenced |-> FALSE]

\* one JSON object, optionally fenced, with free text before and after
WrappedText(p) ==
    p.pre
    \o (IF p.fenced THEN <<"FENCE_JSON", "\n">> ELSE <<>>)
    \o p.obj
    \o (IF p.fenced THEN <<"\n", "FENCE">> ELSE <<>>)
    \o p.post

WrappedParts ==
    [pre : SeqsUpTo(AmbleAlphabet, MaxAmble), obj : JsonObjects,
     post : SeqsUpTo(AmbleAlphabet, MaxAmble), fenced : BOOLEAN]

\* generate_content: raises (a JSONDecodeError of its own, or another
\* exception), answers without text (response.text is None), or answers text
FailOutcomes ==
    {[kind |-> k, text |-> <<>>, parts |-> NoParts] :
        k \in {"raise_json", "raise_other", "no_text"}}

ArbitraryOutcomes ==
    {[kind |-> "text", text |-> r, parts |-> NoParts] :
        r \in SeqsUpTo(RespAlphabet, MaxResp)}

WrappedOutcomes ==
    {[kind |-> "text", text |-> WrappedText(p), parts |-> p] : p \in WrappedParts}

\* the outcomes tried under every job text
ProbeOutcomes ==
    FailOutcomes
    \cup {[kind |-> "text", text |-> r, parts |-> NoParts] :
            r \in {<<"txt">>, <<"{", "m", "}">>, <<"{", "}">>}}

CompletionOutcomes(text) ==
    IF text \in ProbeJobTexts
    THEN FailOutcomes \cup ArbitraryOutcomes \cup WrappedOutcomes
    ELSE ProbeOutcomes

(***************************************************************************)
(* analyze_job_posting.                                                    *)
(***************************************************************************)
NoValue == [kind |-> "none", fields |-> NoFields]
Unbound == [bound |-> FALSE, text |-> <<>>]

DefaultRecord(job_content, job_url) ==
    [kind |-> "dict", fields |-> DefaultJobInfo(job_content, job_url)]

\* except Exception: return the default record
ReturnDefault ==
    /\ aPc' = "returned"
    /\ aResult' = DefaultRecord(jobText, jobUrl)
    /\ aPath' = "default"

\* except json.JSONDecodeError: prints result_text, then returns the default
\* record; the print raises UnboundLocalError when result_text was never bound
JsonErrorHandler(result_text) ==
    IF result_text.bound
    THEN ReturnDefault
    ELSE /\ aPc' = "raised"
         /\ UNCHANGED <<aResult, aPath>>

\* mutant: a failed completion call is made a second time
GenerateContentWithRetry(calls, outcome) ==
    IF outcome.kind = "text" THEN calls + 1 ELSE calls + 2

\* self.client.models.generate_content(...): one call, whatever it does
GenerateContent(calls, outcome) == calls + 1

\* the completion call, and response.text.strip()
AnalyzeGenerate ==
    /\ aPc = "idle"
    /\ \E o \in CompletionOutcomes(jobText) :
         /\ aOutcome' = o
         /\ genCalls' = GenerateContent(genCalls, o)
         /\ CASE o.kind = "text" ->
                   /\ resultText' = [bound |-> TRUE, text |-> Strip(o.text)]
                   /\ aPc' = "got_text"
                   /\ UNCHANGED <<aResult, aPath>>
              [] o.kind = "raise_json" ->
                   /\ JsonErrorHandler(resultText)
                   /\ UNCHANGED resultText
              [] OTHER ->
                   /\ ReturnDefault
                   /\ UNCHANGED resultText
    /\ UNCHANGED <<jobText, jobUrl>>
    /\ UNCHANGED <<svars, cvars, pvars, hvars, dvars, rvars>>

\* mutant: the keys the parsed object lacks are filled in from the default
\* record, and a parsed value that is no object is replaced by it
ReturnJobInfoOverDefaults(job_info, job_content, job_url) ==
    IF job_info.kind = "dict"
    THEN [kind |-> "dict",
          fields |-> [k \in Keys |->
                        IF k \in DOMAIN job_info.fields THEN job_info.fields[k]
                        ELSE DefaultField(k, job_content)]]
    ELSE DefaultRecord(job_content, job_url)

\* job_info = json.loads(result_text); return job_info
ReturnJobInfo(job_info, job_content, job_url) == job_info

\* _clean_json_response, json.loads, return
AnalyzeParse ==
    /\ aPc = "got_text"
    /\ LET cleaned == [bound |-> TRUE, text |-> CleanJsonResponse(resultText.text)]
           parsed == ParseJson(cleaned.text)
       IN  /\ resultText' = cleaned
           /\ IF parsed.ok
              THEN /\ aPc' = "returned"
                   /\ aResult' = ReturnJobInfo(parsed.value, jobText, jobUrl)
                   /\ aPath' = "parsed"
              ELSE JsonErrorHandler(cleaned)
    /\ UNCHANGED <<jobText, jobUrl, aOutcome, genCalls>>
    /\ UNCHANGED <<svars, cvars, pvars, hvars, dvars, rvars>>


(***************************************************************************)
(* urllib.parse.urlparse, as far as scheme and netloc go.  A URL is a      *)
(* sequence of tokens: scheme words, ":", "//", "/", host names, "[".      *)
(***************************************************************************)
\* "//" is two "/" characters
RECURSIVE UrlAtoms(_)
UrlAtoms(u) ==
    IF u = <<>> THEN <<>>
    ELSE (IF Head(u) = "//" THEN <<"/", "/">> ELSE <<Head(u)>>) \o UrlAtoms(Tail(u))

\* characters a scheme may hold: letters, digits, "+", "-", "."
IsSchemeTok(t) == t \notin {":", "/", "[", "]", "?", "#", " ", "\n"}

LowerUrlTok(t) ==
    CASE t = "HTTPS" -> "https"
      [] t = "WWW.Indeed.COM" -> "www.indeed.com"
      [] OTHER -> t

LowerUrl(s) == [i \in 1..Len(s) |-> LowerUrlTok(s[i])]

FirstIndexOf(s, T) ==
    LET I == {i \in 1..Len(s) : s[i] \in T} IN IF I = {} THEN 0 ELSE Min(I)

\* [scheme, netloc, error]: error is the ValueError urlsplit raises on a netloc
\* with an unmatched bracket
UrlParse(url) ==
    LET a == UrlAtoms(url)
        c == FirstIndexOf(a, {":"})
        hasScheme == c > 1 /\ \A i \in 1..(c - 1) : IsSchemeTok(a[i])
        scheme == IF hasScheme THEN LowerUrl(SubSeq(a, 1, c - 1)) ELSE <<>>
        rest == IF hasScheme THEN SubSeq(a, c + 1, Len(a)) ELSE a
        hasNetloc == Len(rest) >= 2 /\ rest[1] = "/" /\ rest[2] = "/"
        after == SubSeq(rest, 3, Len(rest))
        stop == FirstIndexOf(after, {"/", "?", "#"})
        netloc == IF ~hasNetloc THEN <<>>
                  ELSE IF stop = 0 THEN after ELSE SubSeq(after, 1, stop - 1)
        bad == \/ (Contains(netloc, "[") /\ ~Contains(netloc, "]"))
               \/ (Contains(netloc, "]") /\ ~Contains(netloc, "["))
    IN  [scheme |-> scheme, netloc |-> netloc, error |-> bad]

\* mutant: a scheme alone makes a URL valid
IsValidUrlSchemeOnly(url) ==
    LET result == UrlParse(url) IN ~result.error /\ result.scheme # <<>>

\* mutant: only http and https URLs are valid
IsValidUrlHttpOnly(url) ==
    LET result == UrlParse(url)
    IN  IF result.error THEN FALSE
        ELSE result.scheme \in {<<"http">>, <<"https">>} /\ result.netloc # <<>>

\* _is_valid_url: all([result.scheme, result.netloc]); False on any exception
IsValidUrl(url) ==
    LET result == UrlParse(url)
    IN  IF result.error THEN FALSE
        ELSE result.scheme # <<>> /\ result.netloc # <<>>

(***************************************************************************)
(* The parsed page.  A document is a flat sequence of elements, in         *)
(* document order, inside a <body> or not; an element has a tag, one class *)
(* name, an id and one text node.  <title> elements are outside the body.  *)
(***************************************************************************)
CharLen(t) ==
    CASE t = "T101" -> 101
      [] t = "T100" -> 100
      [] t = "T50" -> 50
      [] t \in {"Cookie", "Policy", "Notice", "Follow", "Report", "POLICY"} -> 6
      [] t \in {"Privacy", "Service"} -> 7
      [] t \in {"Terms", "Share", "Apply"} -> 5
      [] t \in {"Sign", "SIGN", "this", "Save"} -> 4
      [] t \in {"Use", "now", "job"} -> 3
      [] t \in {"in", "In", "up", "Up", "to", "us", "of"} -> 2
      [] OTHER -> 1

RECURSIVE TextLen(_)
TextLen(s) == IF s = <<>> THEN 0 ELSE CharLen(Head(s)) + TextLen(Tail(s))

RECURSIVE Concat(_)
Concat(texts) == IF texts = <<>> THEN <<>> ELSE Head(texts) \o Concat(Tail(texts))

\* ' '.join(texts)
RECURSIVE JoinSpace(_)
JoinSpace(texts) ==
    IF texts = <<>> THEN <<>>
    ELSE IF Len(texts) = 1 THEN Head(texts)
    ELSE Head(texts) \o <<" ">> \o JoinSpace(Tail(texts))

\* elem.get_text(strip=True) of an element with one text node
GetText(e) == Strip(e.text)

\* the fragments of the generic selectors that a class name or an id contains
Fragments(v) ==
    CASE v = "job-description" -> {"job-description", "description"}
      [] v = "description__text" -> {"description"}
      [] v = "job-details" -> {"job-detail"}
      [] OTHER -> {}

Sel(by, name) == [by |-> by, name |-> name]

\* soupsieve: does the element match the CSS selector
Matches(sel, e) ==
    CASE sel.by = "class" -> e.class = sel.name
      [] sel.by = "id" -> e.id = sel.name
      [] sel.by = "class*" -> sel.name \in Fragments(e.class)
      [] sel.by = "id*" -> sel.name \in Fragments(e.id)
      [] sel.by = "tag" -> e.tag = sel.name
      [] OTHER -> FALSE    \* a data-test attribute: no element of the model has one

\* soup.select(selector): the matching elements in document order
Select(doc, sel) == SelectSeq(doc.elems, LAMBDA e : Matches(sel, e))

\* soup.find(tag): the first element with that tag, if any
Find(doc, tag) == SelectSeq(doc.elems, LAMBDA e : e.tag = tag)

ElemTexts(elems) == [i \in 1..Len(elems) |-> GetText(elems[i])]

BodyText(doc) ==
    Concat(ElemTexts(SelectSeq(doc.elems, LAMBDA e : e.tag # "title")))

DocumentText(doc) == Concat(ElemTexts(doc.elems))

(***************************************************************************)
(* _get_site_selectors.                                                    *)
(***************************************************************************)
SiteSelectors ==
    << [site |-> "linkedin.com",
        selectors |-> << Sel("class", "description__text"),
                         Sel("class", "jobs-description-content__text"),
                         Sel("class", "jobs-box__html-content") >>],
       [site |-> "indeed.com",
        selectors |-> << Sel("id", "jobDescriptionText"),
                         Sel("class", "jobsearch-jobDescriptionText"),
                         Sel("class", "jobsearch-JobComponent-description") >>],
       [site |-> "glassdoor.com",
        selectors |-> << Sel("id", "JobDescContainer"),
                         Sel("class", "jobDescriptionContent"),
                         Sel("attr", "data-test=jobDescription") >>],
       [site |-> "monster.com",
        selectors |-> << Sel("id", "JobDescription"),
                         Sel("class", "job-description") >>],
       [site |-> "ziprecruiter.com",
        selectors |-> << Sel("class", "job_description"),
                         Sel("attr", "data-testid=job-description") >>],
       [site |-> "careerbuilder.com",
        selectors |-> << Sel("class", "job-description"),
                         Sel("id", "job-summary") >> ] >>

\* the site names that occur in a host token
SiteNames(t) ==
    CASE t = "www.linkedin.com" -> {"linkedin.com"}
      [] t = "www.indeed.com" -> {"indeed.com"}
      [] t = "www.monster.com" -> {"monster.com"}
      [] t = "www.glassdoor.com" -> {"glassdoor.com"}
      [] t = "www.ziprecruiter.com" -> {"ziprecruiter.com"}
      [] t = "www.careerbuilder.com" -> {"careerbuilder.com"}
      [] t = "indeed.com.linkedin.com" -> {"indeed.com", "linkedin.com"}
      [] OTHER -> {}

\* site in domain
SiteIn(site, domain) == \E i \in 1..Len(domain) : site \in SiteNames(domain[i])

\* mutant: the table is looked up by the whole host name instead of by inclusion
GetSiteSelectorsExactHost(domain) ==
    LET hits == {i \in 1..Len(SiteSelectors) : domain = <<SiteSelectors[i].site>>}
    IN  IF hits = {} THEN <<>> ELSE SiteSelectors[Min(hits)].selectors

\* mutant: the last matching entry of the table wins
GetSiteSelectorsLastMatch(domain) ==
    LET hits == {i \in 1..Len(SiteSelectors) : SiteIn(SiteSelectors[i].site, domain)}
    IN  IF hits = {} THEN <<>> ELSE SiteSelectors[Max(hits)].selectors

\* for site, site_selectors in selectors.items(): if site in domain: return
GetSiteSelectors(domain) ==
    LET hits == {i \in 1..Len(SiteSelectors) : SiteIn(SiteSelectors[i].site, domain)}
    IN  IF hits = {} THEN <<>> ELSE SiteSelectors[Min(hits)].selectors

(***************************************************************************)
(* _extract_job_content.                                                   *)
(***************************************************************************)
MinContentLen == 100

\* mutant: the selectors in the order class or id job-description, class or
\* id description, job-detail, main, .content, #content, article
CommonSelectorsGrouped ==
    << Sel("class*", "job-description"), Sel("id*", "job-description"),
       Sel("class*", "description"), Sel("id*", "description"),
       Sel("class*", "job-detail"), Sel("tag", "main"), Sel("class", "content"),
       Sel("id", "content"), Sel("tag", "article") >>

\* common_selectors
CommonSelectors ==
    << Sel("class*", "job-description"), Sel("class*", "job-detail"),
       Sel("class*", "description"), Sel("id*", "job-description"),
       Sel("id*", "description"), Sel("tag", "main"), Sel("class", "content"),
       Sel("id", "content"), Sel("tag", "article") >>

SelectedText(doc, sel) == JoinSpace(ElemTexts(Select(doc, sel)))

\* mutant: a selector qualifies from 100 characters on
SubstantialFrom100(doc, sel) ==
    Select(doc, sel) # <<>> /\ TextLen(SelectedText(doc, sel)) >= MinContentLen

\* if elements: ... if len(content) > 100
Substantial(doc, sel) ==
    Select(doc, sel) # <<>> /\ TextLen(SelectedText(doc, sel)) > MinContentLen

\* the for loop over a selector list, from index k on
RECURSIVE SelectorLoop(_, _, _)
SelectorLoop(doc, sels, k) ==
    IF k > Len(sels) THEN [found |-> FALSE, text |-> <<>>, selector |-> Sel("", "")]
    ELSE IF Substantial(doc, sels[k])
         THEN [found |-> TRUE, text |-> SelectedText(doc, sels[k]),
               selector |-> sels[k]]
         ELSE SelectorLoop(doc, sels, k + 1)

\* [text, step, selector, selectors]: the content, the step of the cascade it
\* came from, and the local selectors, the list of the site-specific step
ExtractJobContent(doc, url) ==
    LET domain == LowerUrl(UrlParse(url).netloc)
        selectors == GetSiteSelectors(domain)
        site == SelectorLoop(doc, selectors, 1)
        common == SelectorLoop(doc, CommonSelectors, 1)
    IN  IF site.found
        THEN [text |-> site.text, step |-> "site", selector |-> site.selector,
              selectors |-> selectors]
        ELSE IF common.found
        THEN [text |-> common.text, step |-> "common", selector |-> common.selector,
              selectors |-> selectors]
        ELSE IF doc.hasBody
        THEN [text |-> BodyText(doc), step |-> "body", selector |-> Sel("", ""),
              selectors |-> selectors]
        ELSE [text |-> DocumentText(doc), step |-> "document",
              selector |-> Sel("", ""), selectors |-> selectors]

(***************************************************************************)
(* _extract_page_title.                                                    *)
(***************************************************************************)
\* mutant: the first <h1> is looked for before the <title>
ExtractPageTitleH1First(doc) ==
    IF Find(doc, "h1") # <<>> THEN GetText(Head(Find(doc, "h1")))
    ELSE IF Find(doc, "title") # <<>> THEN GetText(Head(Find(doc, "title")))
    ELSE <<"Job Posting">>

ExtractPageTitle(doc) ==
    IF Find(doc, "title") # <<>> THEN GetText(Head(Find(doc, "title")))
    ELSE IF Find(doc, "h1") # <<>> THEN GetText(Head(Find(doc, "h1")))
    ELSE <<"Job Posting">>

(***************************************************************************)
(* _clean_content.  A pattern is the set of the word sequences it matches, *)
(* in lower case; between two words it takes a whitespace run (\s+).       *)
(***************************************************************************)
\* re.sub(r'\s+', ' ', content)
RECURSIVE CollapseWs(_)
CollapseWs(s) ==
    IF s = <<>> THEN <<>>
    ELSE IF Head(s) \in WS
         THEN <<" ">> \o CollapseWs(SubSeq(s, 1 + WsRun(s, 1), Len(s)))
         ELSE <<Head(s)>> \o CollapseWs(Tail(s))

LowerWord(t) ==
    CASE t \in {"Cookie"} -> "cookie"
      [] t \in {"Policy", "POLICY"} -> "policy"
      [] t = "Notice" -> "notice"
      [] t = "Privacy" -> "privacy"
      [] t = "Terms" -> "terms"
      [] t = "Use" -> "use"
      [] t = "Service" -> "service"
      [] t \in {"Sign", "SIGN"} -> "sign"
      [] t = "In" -> "in"
      [] t = "Up" -> "up"
      [] t = "Follow" -> "follow"
      [] t = "Share" -> "share"
      [] t = "Apply" -> "apply"
      [] t = "Save" -> "save"
      [] t = "Report" -> "report"
      [] OTHER -> t

PatternsToRemove ==
    << {<<"cookie", "policy">>, <<"cookie", "notice">>, <<"cookie", "settings">>},
       {<<"privacy", "policy">>},
       {<<"terms", "of", "use">>, <<"terms", "of", "service">>,
        <<"terms", "use">>, <<"terms", "service">>},
       {<<"sign", "in">>, <<"sign", "up">>},
       {<<"subscribe", "to">>},
       {<<"follow", "us">>},
       {<<"share", "this", "job">>},
       {<<"apply", "now">>, <<"apply", "online">>},
       {<<"save", "this", "job">>, <<"save", "job">>},
       {<<"report", "this", "job">>} >>

\* tokens taken by the words from index i on, 0 when they do not match there
RECURSIVE WordsAt(_, _, _)
WordsAt(s, i, words) ==
    IF i > Len(s) \/ LowerWord(s[i]) # Head(words) THEN 0
    ELSE IF Len(words) = 1 THEN 1
    ELSE LET w == WsRun(s, i + 1)
             r == WordsAt(s, i + 1 + w, Tail(words))
         IN  IF w = 0 \/ r = 0 THEN 0 ELSE 1 + w + r

MatchAt(s, i, pattern) ==
    LET lens == {WordsAt(s, i, words) : words \in pattern} IN Max(lens)

\* re.sub(pattern, '', content, flags=re.IGNORECASE), from index i on
RECURSIVE RemoveFrom(_, _, _)
RemoveFrom(s, i, pattern) ==
    IF i > Len(s) THEN <<>>
    ELSE LET n == MatchAt(s, i, pattern)
         IN  IF n > 0 THEN RemoveFrom(s, i + n, pattern)
             ELSE <<s[i]>> \o RemoveFrom(s, i + 1, pattern)

RECURSIVE RemoveAll(_, _)
RemoveAll(s, k) ==
    IF k > Len(PatternsToRemove) THEN s
    ELSE RemoveAll(RemoveFrom(s, 1, PatternsToRemove[k]), k + 1)

CleanContent(content) == Strip(CollapseWs(RemoveAll(CollapseWs(content), 1)))

(***************************************************************************)
(* Inputs of scrape_job_posting.                                           *)
(***************************************************************************)
UrlAlphabet == {"https", ":", "//", "/", "www.linkedin.com", "example.com"}

\* the URLs under which every document is tried
ProbeUrls ==
    {<<"https", ":", "//", "www.linkedin.com", "/">>,
     <<"HTTPS", ":", "//", "WWW.Indeed.COM">>,
     <<"https", ":", "//", "example.com">>}

OtherUrls ==
    {<<"ftp", ":", "//", "example.com">>, <<"https", ":", "//", "[">>,
     <<"https", ":", "//", "www.monster.com">>, <<"not-a-url">>,
     <<"https", ":", "//", "www.glassdoor.com">>,
     <<"https", ":", "//", "www.ziprecruiter.com">>,
     <<"https", ":", "//", "www.careerbuilder.com">>,
     <<"https", ":", "//", "indeed.com.linkedin.com">>,
     <<"http", ":", "//", "example.com", "/", "path">>}

ScrapeUrls == SeqsUpTo(UrlAlphabet, MaxUrl) \cup ProbeUrls \cup OtherUrls

ElementKinds ==
    {[tag |-> "div", class |-> "description__text", id |-> ""],
     [tag |-> "div", class |-> "", id |-> "jobDescriptionText"],
     [tag |-> "div", class |-> "job-description", id |-> ""],
     [tag |-> "div", class |-> "job-details", id |-> ""],
     [tag |-> "div", class |-> "", id |-> "job-description"],
     [tag |-> "main", class |-> "", id |-> ""],
     [tag |-> "article", class |-> "", id |-> ""],
     [tag |-> "p", class |-> "", id |-> ""],
     [tag |-> "title", class |-> "", id |-> ""],
     [tag |-> "h1", class |-> "", id |-> ""]}

ElementTexts ==
    {<<"T101">>, <<"T100">>, <<"T50">>,
     <<"\n", "T100", " ", "Sign", " ", "in", "\n">>}

Elements ==
    {[tag |-> k.tag, class |-> k.class, id |-> k.id, text |-> t] :
        k \in ElementKinds, t \in ElementTexts}

AllDocs == [elems : SeqsUpTo(Elements, MaxElems), hasBody : BOOLEAN]

EmptyDoc == [elems |-> <<>>, hasBody |-> FALSE]

\* the documents tried under every URL
ProbeDocs ==
    {EmptyDoc,
     [elems |-> <<[tag |-> "title", class |-> "", id |-> "", text |-> <<"T50">>],
                  [tag |-> "div", class |-> "description__text", id |-> "",
                   text |-> <<"T101">>]>>,
      hasBody |-> TRUE],
     [elems |-> <<[tag |-> "p", class |-> "", id |-> "", text |-> <<"T100">>]>>,
      hasBody |-> TRUE],
     [elems |-> <<[tag |-> "p", class |-> "", id |-> "", text |-> <<"T50">>]>>,
      hasBody |-> TRUE]}

DocsFor(url) == IF url \in ProbeUrls THEN AllDocs ELSE ProbeDocs

NoResponse == [kind |-> "none", detail |-> <<>>, status |-> 0, parseable |-> TRUE,
               doc |-> EmptyDoc]

Raised(exc) == [kind |-> "raise", detail |-> <<exc>>, status |-> 0,
                parseable |-> TRUE, doc |-> EmptyDoc]

Response(status, parseable, doc) ==
    [kind |-> "response", detail |-> <<>>, status |-> status,
     parseable |-> parseable, doc |-> doc]

\* requests.get: a scheme without a connection adapter raises InvalidSchema;
\* otherwise the request fails (ConnectionError, Timeout) or a response comes
\* back, with a status and a body the HTML parser accepts or rejects
GetOutcomes(url) ==
    IF UrlParse(url).scheme \notin {<<"http">>, <<"https">>}
    THEN {Raised("InvalidSchema")}
    ELSE {Raised("ConnectionError"), Raised("Timeout")}
         \cup {Response(st, TRUE, EmptyDoc) : st \in {404, 500}}
         \cup {Response(200, TRUE, d) : d \in DocsFor(url)}
         \cup {Response(st, FALSE, EmptyDoc) : st \in {200, 304}}
         \cup {Response(304, TRUE, d) : d \in ProbeDocs}

(***************************************************************************)
(* scrape_job_posting.                                                     *)
(***************************************************************************)
Timeout == 10

Headers ==
    [UserAgent |-> "Mozilla/5.0 (Windows NT 10.0; Win64; x64) AppleWebKit/537.36 (KHTML, like Gecko) Chrome/91.0.4472.124 Safari/537.36"]

None == <<"None">>

NoResult == [success |-> FALSE, error |-> None, content |-> <<>>, title |-> <<>>,
             url |-> <<>>]

NoExtraction == [text |-> <<>>, step |-> "none", selector |-> Sel("", ""),
                 selectors |-> <<>>]

\* mutant: the failure record carries the error text as its content
FailureRecordEchoesError(url, error) ==
    [success |-> FALSE, error |-> error, content |-> error, title |-> <<>>,
     url |-> url]

\* the three failure records
FailureRecord(url, error) ==
    [success |-> FALSE, error |-> error, content |-> <<>>, title |-> <<>>,
     url |-> url]

\* mutant: a failed request is tried once more
RequestsGetWithRetry(log, url) ==
    log \o << [url |-> url, headers |-> Headers, timeout |-> Timeout],
              [url |-> url, headers |-> Headers, timeout |-> Timeout] >>

\* requests.get(url, headers=self.headers, timeout=self.timeout)
RequestsGet(log, url) ==
    Append(log, [url |-> url, headers |-> Headers, timeout |-> Timeout])

\* mutant: only server errors raise
RaisesForServerErrors(status) == 500 <= status /\ status < 600

\* response.raise_for_status(): HTTPError for a 4xx or 5xx status
RaisesForStatus(status) == 400 <= status /\ status < 600

\* _is_valid_url, and the failure record of an invalid URL
ScrapeValidate ==
    /\ sPc = "idle"
    /\ IF ~IsValidUrl(sUrl)
       THEN /\ sResult' = FailureRecord(sUrl, <<"Invalid URL format">>)
            /\ sPc' = "returned"
       ELSE /\ sPc' = "requesting"
            /\ UNCHANGED sResult
    /\ UNCHANGED <<sUrl, getLog, sResponse, extraction>>
    /\ UNCHANGED <<avars, cvars, pvars, hvars, dvars, rvars>>

\* requests.get and raise_for_status; except RequestException
ScrapeGet ==
    /\ sPc = "requesting"
    /\ getLog' = RequestsGet(getLog, sUrl)
    /\ \E o \in GetOutcomes(sUrl) :
         /\ sResponse' = o
         /\ CASE o.kind = "raise" ->
                   /\ sResult' = FailureRecord(sUrl, <<"Network error: ">> \o o.detail)
                   /\ sPc' = "returned"
              [] o.kind = "response" /\ RaisesForStatus(o.status) ->
                   /\ sResult' = FailureRecord(sUrl, <<"Network error: ", "HTTPError">>)
                   /\ sPc' = "returned"
              [] OTHER ->
                   /\ sPc' = "fetched"
                   /\ UNCHANGED sResult
    /\ UNCHANGED <<sUrl, extraction>>
    /\ UNCHANGED <<avars, cvars, pvars, hvars, dvars, rvars>>

\* BeautifulSoup, _extract_job_content, _extract_page_title, _clean_content and
\* the success record; except Exception
ScrapeExtract ==
    /\ sPc = "fetched"
    /\ IF ~sResponse.parseable
       THEN /\ sResult' = FailureRecord(sUrl, <<"Scraping error: ", "ParserRejectedMarkup">>)
            /\ UNCHANGED extraction
       ELSE LET content == ExtractJobContent(sResponse.doc, sUrl)
                title == ExtractPageTitle(sResponse.doc)
                cleaned_content == CleanContent(content.text)
            IN  /\ extraction' = content
                /\ sResult' = [success |-> TRUE, error |-> None,
                               content |-> cleaned_content, title |-> title,
                               url |-> sUrl]
    /\ sPc' = "returned"
    /\ UNCHANGED <<sUrl, getLog, sResponse>>
    /\ UNCHANGED <<avars, cvars, pvars, hvars, dvars, rvars>>

(***************************************************************************)
(* _clean_content applied to a text, and again to its own result.          *)
(***************************************************************************)
CleanAlphabet == {"Sign", "in", " ", "x"}

\* texts with the other patterns, other cases and other whitespace
OtherCleanTexts ==
    {<<"Cookie", " ", "Privacy", " ", "Policy", " ", "Policy">>,
     <<"Privacy", " ", "Cookie", " ", "Policy", " ", "Policy">>,
     <<"x", " ", "Cookie", " ", "Policy", " ", "Sign", " ", "in", " ", "Privacy",
       " ", "Policy", " ", "Apply", " ", "now", " ", "Save", " ", "this", " ", "job">>,
     <<"SIGN", " ", "In", " ", "Sign", " ", "up", " ", "Privacy", " ", "POLICY",
       " ", "Terms", " ", "of", " ", "Service">>,
     <<"x", " ", " ", "x", "\n", "\n", "x">>,
     <<"Save", "\n", "Save", " ", "this", " ", "job", " ", "job">>}

CleanTexts == SeqsUpTo(CleanAlphabet, MaxClean) \cup OtherCleanTexts

CleanIdle ==
    /\ cleanIn = <<>>
    /\ cleanOuts = <<>>

\* _clean_content(content), content being the text or the previous result
CleanApply ==
    /\ Len(cleanOuts) < MaxPasses
    /\ LET content == IF cleanOuts = <<>> THEN cleanIn
                      ELSE cleanOuts[Len(cleanOuts)]
       IN  cleanOuts' = Append(cleanOuts, CleanContent(content))
    /\ UNCHANGED cleanIn
    /\ UNCHANGED <<avars, svars, pvars, hvars, dvars, rvars>>

(***************************************************************************)
(* JSON values held by a job_info given to personalize_cover_letter: a     *)
(* string, a list of strings, or null (None).  job_info itself is a dict   *)
(* with any subset of the keys, or None.  Numbers, nested objects and a    *)
(* string where a list is expected are not among the inputs.               *)
(***************************************************************************)
JStr(s) == [type |-> "str", val |-> s]
JList(l) == [type |-> "list", val |-> l]
JNull == [type |-> "null", val |-> <<>>]
Absent == [type |-> "absent", val |-> <<>>]

\* the keys _create_fallback_cover_letter reads
FallbackKeys ==
    {"company_name", "position_title", "key_requirements", "company_description"}

\* the dict that holds the given values, a key left out when its value is Absent
JobInfoOf(c, p, k, d) ==
    LET v == [x \in FallbackKeys |->
                CASE x = "company_name" -> c
                  [] x = "position_title" -> p
                  [] x = "key_requirements" -> k
                  [] OTHER -> d]
    IN  [kind |-> "dict",
         fields |-> [x \in {y \in FallbackKeys : v[y] # Absent} |-> v[x]]]

\* job_info.get(key, default)
Get(job_info, key, default) ==
    IF key \in DOMAIN job_info.fields THEN job_info.fields[key] ELSE default

(***************************************************************************)
(* str.replace and str.join on token sequences.  The placeholders are      *)
(* tokens; "{company_" and "name}" are the two halves of {company_name},   *)
(* and the same text as that token when they stand next to each other.     *)
(***************************************************************************)
Placeholders ==
    {"{company_name}", "{position_title}", "{relevant_skills}",
     "{company_reasons}", "{personalized_content}"}

RECURSIVE Fuse(_)
Fuse(s) ==
    IF Len(s) < 2 THEN s
    ELSE IF s[1] = "{company_" /\ s[2] = "name}"
         THEN <<"{company_name}">> \o Fuse(SubSeq(s, 3, Len(s)))
         ELSE <<s[1]>> \o Fuse(Tail(s))

RECURSIVE ReplaceTok(_, _, _)
ReplaceTok(s, old, new) ==
    IF s = <<>> THEN <<>>
    ELSE (IF Head(s) = old THEN new ELSE <<Head(s)>>) \o ReplaceTok(Tail(s), old, new)

\* s.replace(old, new): every occurrence, left to right, in one pass
StrReplace(s, old, new) == Fuse(ReplaceTok(Fuse(s), old, new))

\* sep.join(items)
RECURSIVE JoinWith(_, _)
JoinWith(items, sep) ==
    IF items = <<>> THEN <<>>
    ELSE IF Len(items) = 1 THEN Head(items)
    ELSE Head(items) \o sep \o JoinWith(Tail(items), sep)

\* items[:n]
Take(items, n) == SubSeq(items, 1, Min({n, Len(items)}))

(***************************************************************************)
(* _create_fallback_cover_letter: [raised, text].  str.replace raises      *)
(* TypeError when the replacement is not a str, None[:3] and None.get raise*)
(* as well; nothing in the method catches them.                            *)
(***************************************************************************)
DefaultSkills == << <<"professional experience">>, <<"strong communication skills">> >>

DefaultReasons == <<"your commitment to excellence and innovation">>

PersonalizedContent(skills) ==
    <<"My experience aligns well with your requirements for ">> \o skills
    \o <<". I am excited about the opportunity to contribute to your team and help achieve your organizational goals.">>

\* the four replacements that come after {company_name}
FallbackSteps(p1, position_title, key_requirements, company_reasons) ==
    LET p2 == StrReplace(p1, "{position_title}", position_title.val)
        skills == JoinWith(Take(key_requirements.val, 3), <<", ">>)
        p3 == StrReplace(p2, "{relevant_skills}", skills)
        p4 == StrReplace(p3, "{company_reasons}", company_reasons.val)
    IN  StrReplace(p4, "{personalized_content}", PersonalizedContent(skills))

\* mutant: the {company_reasons} replacement is left out
CreateFallbackCoverLetterNoReasons(tmpl, job_info) ==
    LET company_name == Get(job_info, "company_name", JStr(<<"Company">>))
        position_title == Get(job_info, "position_title", JStr(<<"Position">>))
        key_requirements == Get(job_info, "key_requirements", JList(DefaultSkills))
        skills == JoinWith(Take(key_requirements.val, 3), <<", ">>)
        raised == \/ job_info.kind # "dict"
                  \/ company_name.type # "str"
                  \/ position_title.type # "str"
                  \/ key_requirements.type # "list"
        p1 == StrReplace(tmpl, "{company_name}", company_name.val)
        p2 == StrReplace(p1, "{position_title}", position_title.val)
        p3 == StrReplace(p2, "{relevant_skills}", skills)
    IN  IF raised THEN [raised |-> TRUE, text |-> <<>>]
        ELSE [raised |-> FALSE,
              text |-> StrReplace(p3, "{personalized_content}",
                                  PersonalizedContent(skills))]

CreateFallbackCoverLetter(tmpl, job_info) ==
    LET company_name == Get(job_info, "company_name", JStr(<<"Company">>))
        position_title == Get(job_info, "position_title", JStr(<<"Position">>))
        key_requirements == Get(job_info, "key_requirements", JList(DefaultSkills))
        company_reasons == Get(job_info, "company_description", JStr(DefaultReasons))
        raised == \/ job_info.kind # "dict"
                  \/ company_name.type # "str"
                  \/ position_title.type # "str"
                  \/ key_requirements.type # "list"
                  \/ company_reasons.type # "str"
    IN  IF raised THEN [raised |-> TRUE, text |-> <<>>]
        ELSE [raised |-> FALSE,
              text |-> FallbackSteps(
                           StrReplace(tmpl, "{company_name}", company_name.val),
                           position_title, key_requirements, company_reasons)]

(***************************************************************************)
(* Inputs of personalize_cover_letter.                                     *)
(***************************************************************************)
TemplateAlphabet == Placeholders \cup {"Dear"}

Templates == SeqsUpTo(TemplateAlphabet, MaxTemplate)

\* the templates under which every job_info is tried: the five placeholders
\* in text, and one whose {position_title} stands between the halves of
\* {company_name}
ProbeTemplates ==
    {<<"Dear", "{company_name}", "{position_title}", "{relevant_skills}",
       "{company_reasons}", "{personalized_content}", "Dear">>,
     <<"{company_", "{position_title}", "name}", "{relevant_skills}">>}

CompanyNames ==
    {Absent, JNull, JStr(<<"Test Corp">>), JStr(<<>>), JStr(<<"{position_title}">>),
     JStr(<<"{company_name}">>)}

PositionTitles == {Absent, JNull, JStr(<<"Engineer">>), JStr(<<>>)}

RequirementItems == {<<"Python">>, <<"{company_name}">>}

Requirements ==
    {Absent, JNull} \cup {JList(l) : l \in SeqsUpTo(RequirementItems, MaxReqs)}

Descriptions ==
    {Absent, JNull, JStr(<<"We build things">>), JStr(<<"{personalized_content}">>)}

NoneJobInfo == [kind |-> "null", fields |-> NoFields]

JobInfos ==
    {NoneJobInfo}
    \cup {JobInfoOf(c, p, k, d) :
            c \in CompanyNames, p \in PositionTitles, k \in Requirements,
            d \in Descriptions}

\* the job_infos under which every template is tried
ProbeJobInfos ==
    {JobInfoOf(Absent, Absent, Absent, Absent),
     JobInfoOf(JStr(<<"Test Corp">>), JStr(<<"Engineer">>), Absent, Absent),
     JobInfoOf(JStr(<<"Test Corp">>), JStr(<<"Engineer">>), JList(<<>>), Absent),
     JobInfoOf(JStr(<<"TechCorp Inc.">>), JStr(<<"Senior Software Engineer">>),
               JList(<< <<"Python">>, <<"AWS">>, <<"SQL">>, <<"Docker">> >>),
               JStr(<<"We build things">>)),
     JobInfoOf(JStr(<<"Test Corp">>), JNull, Absent, Absent)}

JobInfosFor(tmpl) == IF tmpl \in ProbeTemplates THEN JobInfos ELSE ProbeJobInfos

\* generate_content: raises, answers without text (response.text is None), or
\* answers text, which may be empty or blank
PersonalizeOutcomes ==
    {[kind |-> "raise", text |-> <<>>], [kind |-> "no_text", text |-> <<>>]}
    \cup {[kind |-> "text", text |-> t] :
            t \in {<<>>, <<" ", "\n">>, <<"\n", "Dear", " ", "Test Corp", "\n">>}}

(***************************************************************************)
(* personalize_cover_letter.  The prompt is built before the try; it       *)
(* serialises job_info and resume_data, which are JSON values here.        *)
(***************************************************************************)
PersonalizeIdle ==
    /\ template = <<>>
    /\ pJobInfo = [kind |-> "dict", fields |-> NoFields]
    /\ pPc = "off"
    /\ pOutcome = [kind |-> "none", text |-> <<>>]
    /\ pResult = <<>>
    /\ pPath = "none"
    /\ pCalls = 0

\* the completion call and return response.text.strip(); a raise, and the
\* AttributeError of None.strip(), enter the except clause
PersonalizeGenerate ==
    /\ pPc = "idle"
    /\ \E o \in PersonalizeOutcomes :
         /\ pOutcome' = o
         /\ pCalls' = GenerateContent(pCalls, o)
         /\ IF o.kind = "text"
            THEN /\ pResult' = Strip(o.text)
                 /\ pPath' = "model"
                 /\ pPc' = "returned"
            ELSE /\ pPc' = "failed"
                 /\ UNCHANGED <<pResult, pPath>>
    /\ UNCHANGED <<template, pJobInfo>>
    /\ UNCHANGED <<avars, svars, cvars, hvars, dvars, rvars>>

\* except Exception: return self._create_fallback_cover_letter(template, job_info)
PersonalizeFallback ==
    /\ pPc = "failed"
    /\ LET letter == CreateFallbackCoverLetter(template, pJobInfo)
       IN  IF letter.raised
           THEN /\ pPc' = "raised"
                /\ UNCHANGED <<pResult, pPath>>
           ELSE /\ pResult' = letter.text
                /\ pPath' = "fallback"
                /\ pPc' = "returned"
    /\ UNCHANGED <<template, pJobInfo, pOutcome, pCalls>>
    /\ UNCHANGED <<avars, svars, cvars, hvars, dvars, rvars>>

(***************************************************************************)
(* models/database.py.  A table is the set of its rows; the ids are        *)
(* AUTOINCREMENT, so a new row gets the largest id ever used plus one.     *)
(***************************************************************************)
MaxTemplateId == 3   \* template rows ever inserted
MaxClock == 1        \* seconds that pass

DefaultCoverLetter ==
    <<"Dear", " ", "{position_title}", " ", "{company_name}", "\n",
      "{personalized_content}", "\n", "{company_name}", " ", "{company_reasons}",
      " ", "{relevant_skills}">>

\* the default resume: a JSON object in text
DefaultResume == <<"{", "resume", "}">>

TemplateRow(id, template_type, name, content, t) ==
    [id |-> id, type |-> template_type, name |-> name, content |-> content,
     created_at |-> t, updated_at |-> t]

DefaultTemplates(seq, t) ==
    {TemplateRow(seq + 1, "cover_letter", "Default Cover Letter", DefaultCoverLetter, t),
     TemplateRow(seq + 2, "resume", "Default Resume", DefaultResume, t)}

\* mutant: the default templates are inserted on every call
InsertDefaultTemplatesAlways(rows, seq, t) ==
    [rows |-> rows \cup DefaultTemplates(seq, t), seq |-> seq + 2]

\* _insert_default_templates: SELECT COUNT(*); if count == 0: two INSERTs
InsertDefaultTemplates(rows, seq, t) ==
    IF Cardinality(rows) = 0
    THEN [rows |-> DefaultTemplates(seq, t), seq |-> seq + 2]
    ELSE [rows |-> rows, seq |-> seq]

\* get_templates(type)[0]: ORDER BY created_at DESC leaves the order of rows
\* created in the same second open, so any of the newest may come first
FirstTemplates(rows, template_type) ==
    LET typed == {r \in rows : r.type = template_type}
    IN  {r \in typed : \A q \in typed : q.created_at <= r.created_at}

\* create_template: INSERT, return cursor.lastrowid
DbCreateTemplate(rows, seq, template_type, name, content, t) ==
    [rows |-> rows \cup {TemplateRow(seq + 1, template_type, name, content, t)},
     seq |-> seq + 1, returned |-> seq + 1]

\* mutant: the UPDATE has no WHERE clause
DbUpdateTemplateEveryRow(rows, template_id, name, content, t) ==
    [rows |-> {[r EXCEPT !.name = name, !.content = content, !.updated_at = t] :
                 r \in rows},
     returned |-> Cardinality(rows) > 0]

\* update_template: UPDATE ... WHERE id = ?, return cursor.rowcount > 0
DbUpdateTemplate(rows, template_id, name, content, t) ==
    LET hit == {r \in rows : r.id = template_id}
    IN  [rows |-> (rows \ hit)
                  \cup {[r EXCEPT !.name = name, !.content = content,
                                  !.updated_at = t] : r \in hit},
         returned |-> Cardinality(hit) > 0]

\* delete_template: DELETE ... WHERE id = ?, return cursor.rowcount > 0
DbDeleteTemplate(rows, template_id) ==
    LET hit == {r \in rows : r.id = template_id}
    IN  [rows |-> rows \ hit, returned |-> Cardinality(hit) > 0]

\* save_job_application: INSERT INTO jobs, return cursor.lastrowid
\* (job holds the seven columns the call gives)
DbSaveJobApplication(rows, seq, job, t) ==
    [rows |-> rows \cup {[id |-> seq + 1, url |-> job.url,
                          company_name |-> job.company_name,
                          position_title |-> job.position_title,
                          job_description |-> job.job_description,
                          extracted_info |-> job.extracted_info,
                          generated_cover_letter |-> job.generated_cover_letter,
                          session_id |-> job.session_id, created_at |-> t]},
     seq |-> seq + 1, returned |-> seq + 1]

\* create_session: INSERT OR REPLACE INTO sessions (id)
DbCreateSession(rows, session_id, t) ==
    {r \in rows : r.id # session_id}
    \cup {[id |-> session_id, created_at |-> t, last_activity |-> t]}

\* update_session_activity: UPDATE sessions SET last_activity = CURRENT_TIMESTAMP
DbUpdateSessionActivity(rows, session_id, t) ==
    {IF r.id = session_id THEN [r EXCEPT !.last_activity = t] ELSE r : r \in rows}

\* what a Database method returned: a truth value (update, delete), a row id
\* (create, save) or nothing
Returns(op, bool, rowid) == [op |-> op, bool |-> bool, rowid |-> rowid]

NoReturn == Returns("none", FALSE, 0)

NoAnswer == [code |-> 0, status |-> "none"]

Answer(code, status) == [code |-> code, status |-> status]

\* Database.__init__ and the call under __main__: the tables are created if
\* they do not exist, then _insert_default_templates
InitDatabase ==
    /\ (templates = {} => sqlite_sequence.templates + 2 <= MaxTemplateId)
    /\ LET r == InsertDefaultTemplates(templates, sqlite_sequence.templates, now)
       IN  /\ templates' = r.rows
           /\ sqlite_sequence' = [sqlite_sequence EXCEPT !.templates = r.seq]
    /\ tables' = TRUE
    /\ dbReturn' = Returns("init_database", FALSE, 0)
    /\ UNCHANGED <<jobs, sessions, now>>
    /\ UNCHANGED <<avars, svars, cvars, pvars, hvars, rvars>>

\* the JSON bodies of the template routes: none, or an object whose type,
\* name and content may be empty
Body(json, template_type, name, content) ==
    [json |-> json, type |-> template_type, name |-> name, content |-> content]

MyLetter == <<"Dear", " ", "{company_name}">>

CreateBodies ==
    {Body(FALSE, "", "", <<>>), Body(TRUE, "", "", <<>>),
     Body(TRUE, "memo", "Mine", MyLetter), Body(TRUE, "resume", "", MyLetter),
     Body(TRUE, "cover_letter", "Mine", <<>>), Body(TRUE, "", "Mine", MyLetter),
     Body(TRUE, "cover_letter", "Mine", MyLetter),
     Body(TRUE, "resume", "Mine", MyLetter)}

UpdateBodies ==
    {Body(FALSE, "", "", <<>>), Body(TRUE, "", "", <<>>),
     Body(TRUE, "", "", MyLetter), Body(TRUE, "", "Mine", <<>>),
     Body(TRUE, "", "Mine", MyLetter)}

\* an object without members is falsy, like no body at all
NoData(data) == ~data.json \/ (data.type = "" /\ data.name = "" /\ data.content = <<>>)

TemplateIds == 0..(MaxTemplateId + 1)

\* POST /api/templates
CreateTemplate(data) ==
    /\ tables
    /\ IF NoData(data) \/ data.type = "" \/ data.name = "" \/ data.content = <<>>
          \/ data.type \notin {"resume", "cover_letter"}
       THEN /\ answer' = Answer(400, "none")
            /\ UNCHANGED <<templates, sqlite_sequence, dbReturn>>
       ELSE /\ sqlite_sequence.templates < MaxTemplateId
            /\ LET r == DbCreateTemplate(templates, sqlite_sequence.templates,
                                         data.type, data.name, data.content, now)
               IN  /\ templates' = r.rows
                   /\ sqlite_sequence' = [sqlite_sequence EXCEPT !.templates = r.seq]
                   /\ dbReturn' = Returns("create_template", FALSE, r.returned)
            /\ answer' = Answer(201, "success")
    /\ UNCHANGED <<tables, jobs, sessions, now>>
    /\ UNCHANGED <<request, chatPc, stages>>
    /\ UNCHANGED <<avars, svars, cvars, pvars, rvars>>

\* PUT /api/templates/<template_id>
UpdateTemplate(template_id, data) ==
    /\ tables
    /\ IF NoData(data) \/ data.name = "" \/ data.content = <<>>
       THEN /\ answer' = Answer(400, "none")
            /\ UNCHANGED <<templates, dbReturn>>
       ELSE LET r == DbUpdateTemplate(templates, template_id, data.name,
                                      data.content, now)
            IN  /\ templates' = r.rows
                /\ dbReturn' = Returns("update_template", r.returned, 0)
                /\ answer' = IF r.returned THEN Answer(200, "success")
                             ELSE Answer(404, "none")
    /\ UNCHANGED <<tables, jobs, sessions, sqlite_sequence, now>>
    /\ UNCHANGED <<request, chatPc, stages>>
    /\ UNCHANGED <<avars, svars, cvars, pvars, rvars>>

\* DELETE /api/templates/<template_id>
DeleteTemplate(template_id) ==
    /\ tables
    /\ LET r == DbDeleteTemplate(templates, template_id)
       IN  /\ templates' = r.rows
           /\ dbReturn' = Returns("delete_template", r.returned, 0)
           /\ answer' = IF r.returned THEN Answer(200, "success")
                        ELSE Answer(404, "none")
    /\ UNCHANGED <<tables, jobs, sessions, sqlite_sequence, now>>
    /\ UNCHANGED <<request, chatPc, stages>>
    /\ UNCHANGED <<avars, svars, cvars, pvars, rvars>>

\* a second passes
Tick ==
    /\ now < MaxClock
    /\ now' = now + 1
    /\ UNCHANGED <<tables, templates, jobs, sessions, sqlite_sequence, dbReturn>>
    /\ UNCHANGED <<avars, svars, cvars, pvars, hvars, rvars>>

\* the database file before the first Database()
DatabaseIdle ==
    /\ tables = FALSE
    /\ templates = {}
    /\ jobs = {}
    /\ sessions = {}
    /\ sqlite_sequence = [templates |-> 0, jobs |-> 0]
    /\ now = 0
    /\ dbReturn = NoReturn

(***************************************************************************)
(* app/main.py: the chat route.  The handler calls the three service       *)
(* operations in turn; each call is the run of that operation's steps from *)
(* "idle" to "returned" or "raised", and the handler goes on when the call *)
(* is over.                                                                *)
(***************************************************************************)
MinJobContent == 100
DescriptionLimit == 5000

\* 'http://' in message or 'https://' in message
ContainsUrl(message) ==
    \E i \in 1..(Len(message) - 2) :
        /\ message[i] \in {"http", "https"}
        /\ message[i + 1] = ":"
        /\ message[i + 2] = "//"

\* mutant: content passes from 50 characters on
TooShortUnder50(job_content) == TextLen(job_content) < 50

\* len(job_content) < 100
TooShort(job_content) == TextLen(job_content) < MinJobContent

\* job_content[:5000], cut at a token
RECURSIVE TakeChars(_, _)
TakeChars(s, n) ==
    IF s = <<>> \/ CharLen(Head(s)) > n THEN <<>>
    ELSE <<Head(s)>> \o TakeChars(Tail(s), n - CharLen(Head(s)))

\* the value analyze_job_posting returned, as the JSON value that
\* personalize_cover_letter is given: the same dict, or None
AsJsonValue(job_info) ==
    IF job_info.kind # "dict" THEN NoneJobInfo
    ELSE [kind |-> "dict",
          fields |-> [k \in FallbackKeys \cap DOMAIN job_info.fields |->
                        IF k = "key_requirements" THEN JList(job_info.fields[k])
                        ELSE JStr(job_info.fields[k])]]

\* job_info.get(key, '')
GetOr(job_info, key) ==
    IF key \in DOMAIN job_info.fields THEN job_info.fields[key] ELSE <<>>

\* mutant: the handler goes on while the call is still under way
StageDoneEarly(pc) == pc # "off"

\* the service call has returned, or raised into the handler's except clause
StageDone(pc) == pc \in {"returned", "raised"}

\* the request bodies: none, a JSON array, or an object with a message and
\* possibly a session_id
ChatMessages ==
    {<<>>, <<" ">>, <<"hello">>,
     <<"ftp", ":", "//", "example.com">>,
     <<"HTTPS", ":", "//", "WWW.Indeed.COM">>,
     <<"https", ":", "//", "[">>,
     <<"see", " ", "https", ":", "//", "example.com">>,
     <<"https", ":", "//", "www.monster.com">>,
     <<" ", "https", ":", "//", "www.monster.com", "\n">>}

ChatRequests ==
    {[body |-> b, message |-> <<>>, session_id |-> ""] : b \in {"none", "array"}}
    \cup [body : {"object"}, message : ChatMessages, session_id : {"", "s1"}]

\* data.get('session_id', str(uuid.uuid4()))
SessionId(data) == IF data.session_id = "" THEN "uuid4" ELSE data.session_id

Finish(code, status) ==
    /\ answer' = Answer(code, status)
    /\ chatPc' = "answered"
    /\ UNCHANGED stages

\* scrape_result = job_scraper.scrape_job_posting(url)
StartScrape(url) ==
    /\ sUrl' = url
    /\ sPc' = "idle"
    /\ stages' = Append(stages, "scrape")
    /\ chatPc' = "scraping"
    /\ UNCHANGED <<answer, getLog, sResponse, extraction, sResult>>

\* job_info = gemini_service.analyze_job_posting(job_content, url)
StartAnalyze(job_content, url) ==
    /\ jobText' = job_content
    /\ jobUrl' = url
    /\ aPc' = "idle"
    /\ stages' = Append(stages, "analyze")
    /\ chatPc' = "analyzing"
    /\ UNCHANGED <<answer, aOutcome, resultText, aResult, aPath, genCalls>>

\* gemini_service.personalize_cover_letter(cover_letter_template, job_info,
\* resume_data)
StartPersonalize(cover_letter_template, job_info) ==
    /\ template' = cover_letter_template
    /\ pJobInfo' = job_info
    /\ pPc' = "idle"
    /\ stages' = Append(stages, "personalize")
    /\ chatPc' = "personalizing"
    /\ UNCHANGED <<answer, pOutcome, pResult, pPath, pCalls>>

\* from request.get_json() to the call of scrape_job_posting
ChatReceive ==
    /\ chatPc = "idle"
    /\ tables
    /\ LET message == Strip(request.message)
           session_id == SessionId(request)
       IN  CASE request.body = "none" ->
                  /\ Finish(400, "none")
                  /\ UNCHANGED <<sessions, svars>>
             [] request.body = "array" ->
                  \* data.get raises AttributeError: except Exception
                  /\ Finish(500, "error")
                  /\ UNCHANGED <<sessions, svars>>
             [] request.body = "object" /\ message = <<>> ->
                  /\ Finish(400, "none")
                  /\ UNCHANGED <<sessions, svars>>
             [] OTHER ->
                  /\ sessions' = DbUpdateSessionActivity(
                                     DbCreateSession(sessions, session_id, now),
                                     session_id, now)
                  /\ IF ~ContainsUrl(message)
                     THEN Finish(400, "error") /\ UNCHANGED svars
                     ELSE StartScrape(message)
    /\ UNCHANGED <<request, tables, templates, jobs, sqlite_sequence, now, dbReturn>>
    /\ UNCHANGED <<avars, cvars, pvars, rvars>>

\* the checks on scrape_result, and the call of analyze_job_posting
ChatAfterScrape ==
    /\ chatPc = "scraping"
    /\ StageDone(sPc)
    /\ IF ~sResult.success \/ TooShort(sResult.content)
       THEN Finish(400, "error") /\ UNCHANGED avars
       ELSE StartAnalyze(sResult.content, sUrl)
    /\ UNCHANGED request
    /\ UNCHANGED <<svars, cvars, pvars, dvars, rvars>>

\* get_templates, the checks on the two lists, json.loads of the resume
\* template (its fallback dict on JSONDecodeError), and the call of
\* personalize_cover_letter; an exception raised by analyze_job_posting is
\* caught by except Exception
ChatAfterAnalyze ==
    /\ chatPc = "analyzing"
    /\ StageDone(aPc)
    /\ IF aPc = "raised"
       THEN Finish(500, "error") /\ UNCHANGED pvars
       ELSE IF FirstTemplates(templates, "cover_letter") = {}
               \/ FirstTemplates(templates, "resume") = {}
       THEN Finish(400, "error") /\ UNCHANGED pvars
       ELSE \E cover_letter \in FirstTemplates(templates, "cover_letter") :
                StartPersonalize(cover_letter.content, AsJsonValue(aResult))
    /\ UNCHANGED request
    /\ UNCHANGED <<avars, svars, cvars, dvars, rvars>>

\* save_job_application and the success answer; an exception raised by
\* personalize_cover_letter, and the AttributeError of job_info.get on None,
\* are caught by except Exception
ChatAfterPersonalize ==
    /\ chatPc = "personalizing"
    /\ StageDone(pPc)
    /\ IF pPc = "raised" \/ aResult.kind # "dict"
       THEN /\ Finish(500, "error")
            /\ UNCHANGED <<jobs, sqlite_sequence, dbReturn>>
       ELSE LET job == [url |-> sUrl,
                        company_name |-> GetOr(aResult, "company_name"),
                        position_title |-> GetOr(aResult, "position_title"),
                        job_description |-> TakeChars(sResult.content, DescriptionLimit),
                        extracted_info |-> aResult,
                        generated_cover_letter |-> pResult,
                        session_id |-> SessionId(request)]
                r == DbSaveJobApplication(jobs, sqlite_sequence.jobs, job, now)
            IN  /\ jobs' = r.rows
                /\ sqlite_sequence' = [sqlite_sequence EXCEPT !.jobs = r.seq]
                /\ dbReturn' = Returns("save_job_application", FALSE, r.returned)
                /\ Finish(200, "success")
    /\ UNCHANGED <<request, tables, templates, sessions, now>>
    /\ UNCHANGED <<avars, svars, cvars, pvars, rvars>>

ChatIdle ==
    /\ request = [body |-> "none", message |-> <<>>, session_id |-> ""]
    /\ chatPc = "off"
    /\ answer = NoAnswer
    /\ stages = <<>>

(***************************************************************************)
(* Two pipeline invocations on the process-wide instances job_scraper and  *)
(* gemini_service (services/scraper.py:196, services/gemini.py:163).  The  *)
(* parameters and local variables of a call belong to the invocation; the  *)
(* attributes of self are shared.  An invocation runs scrape_job_posting,  *)
(* analyze_job_posting and personalize_cover_letter the way the chat route *)
(* calls them, and the invocations interleave step by step.                *)
(***************************************************************************)
Invocations == {1, 2}

ScraperFields == [headers |-> Headers, timeout |-> Timeout]

GeminiFields == [api_key |-> "GEMINI_API_KEY", client |-> "genai.Client"]

NoCall == [url |-> <<>>, headers |-> Headers, timeout |-> 0]

NoCompletion == [kind |-> "none", text |-> <<>>, parts |-> NoParts]

NoReply == [kind |-> "none", text |-> <<>>]

\* the locals of an invocation that has not started
Locals(url, cover_letter_template) ==
    [pc |-> "validate", url |-> url, template |-> cover_letter_template,
     sent |-> NoCall, response |-> NoResponse, scrape_result |-> NoResult,
     completion |-> NoCompletion, result_text |-> Unbound, job_info |-> NoValue,
     reply |-> NoReply, letter |-> <<>>]

\* scrape_job_posting has returned: the route's checks on its result
AfterScrapeResult(l, result) ==
    [l EXCEPT !.scrape_result = result,
              !.pc = IF ~result.success \/ TooShort(result.content)
                     THEN "done" ELSE "generate"]

\* analyze_job_posting has returned
AfterJobInfo(l, job_info) == [l EXCEPT !.job_info = job_info, !.pc = "personalize"]

\* the except clauses of analyze_job_posting
AfterAnalyzeError(l, result_text, json_error) ==
    IF json_error /\ ~result_text.bound THEN [l EXCEPT !.pc = "raised"]
    ELSE AfterJobInfo(l, DefaultRecord(l.scrape_result.content, l.url))

\* one step of an invocation: the locals after it, given the fields of the
\* two instances and what the network did (o is the outcome of requests.get
\* in step "get", of generate_content in steps "generate" and "personalize")
PipelineStep(l, scraper, gemini, o) ==
    CASE l.pc = "validate" ->
           IF ~IsValidUrl(l.url)
           THEN AfterScrapeResult(l, FailureRecord(l.url, <<"Invalid URL format">>))
           ELSE [l EXCEPT !.pc = "get"]
      [] l.pc = "get" ->
           LET m == [l EXCEPT !.response = o,
                              !.sent = [url |-> l.url, headers |-> scraper.headers,
                                        timeout |-> scraper.timeout]]
           IN  IF o.kind = "raise"
               THEN AfterScrapeResult(m, FailureRecord(l.url, <<"Network error: ">> \o o.detail))
               ELSE IF RaisesForStatus(o.status)
               THEN AfterScrapeResult(m, FailureRecord(l.url, <<"Network error: ", "HTTPError">>))
               ELSE [m EXCEPT !.pc = "extract"]
      [] l.pc = "extract" ->
           IF ~l.response.parseable
           THEN AfterScrapeResult(l, FailureRecord(l.url, <<"Scraping error: ", "ParserRejectedMarkup">>))
           ELSE AfterScrapeResult(l,
                    [success |-> TRUE, error |-> None,
                     content |-> CleanContent(ExtractJobContent(l.response.doc, l.url).text),
                     title |-> ExtractPageTitle(l.response.doc), url |-> l.url])
      [] l.pc = "generate" ->
           LET m == [l EXCEPT !.completion = o]
           IN  CASE o.kind = "text" ->
                      [m EXCEPT !.result_text = [bound |-> TRUE, text |-> Strip(o.text)],
                                !.pc = "parse"]
                 [] o.kind = "raise_json" -> AfterAnalyzeError(m, m.result_text, TRUE)
                 [] OTHER -> AfterAnalyzeError(m, m.result_text, FALSE)
      [] l.pc = "parse" ->
           LET cleaned == [bound |-> TRUE, text |-> CleanJsonResponse(l.result_text.text)]
               parsed == ParseJson(cleaned.text)
               m == [l EXCEPT !.result_text = cleaned]
           IN  IF parsed.ok
               THEN AfterJobInfo(m, ReturnJobInfo(parsed.value, l.scrape_result.content, l.url))
               ELSE AfterAnalyzeError(m, cleaned, TRUE)
      [] l.pc = "personalize" ->
           LET m == [l EXCEPT !.reply = o]
           IN  IF o.kind = "text"
               THEN [m EXCEPT !.letter = Strip(o.text), !.pc = "done"]
               ELSE [m EXCEPT !.pc = "fallback"]
      [] l.pc = "fallback" ->
           LET letter == CreateFallbackCoverLetter(l.template, AsJsonValue(l.job_info))
           IN  IF letter.raised THEN [l EXCEPT !.pc = "raised"]
               ELSE [l EXCEPT !.letter = letter.text, !.pc = "done"]
      [] OTHER -> l

Over(l) == l.pc \in {"done", "raised"}

\* the outcome the network gave the step an invocation is at
Given(l, net) ==
    CASE l.pc = "get" -> net.response
      [] l.pc = "generate" -> net.completion
      [] l.pc = "personalize" -> net.reply
      [] OTHER -> NoReply

\* the invocation run alone to its end on fresh instances, with the given
\* network responses
RECURSIVE RunAlone(_, _)
RunAlone(l, net) ==
    IF Over(l) THEN l
    ELSE RunAlone(PipelineStep(l, ScraperFields, GeminiFields, Given(l, net)), net)

\* mutant: the scraper doubles its timeout after every request
ScraperAfterGetBacksOff(self) == [self EXCEPT !.timeout = 2 * self.timeout]

\* scrape_job_posting assigns no attribute of self
ScraperAfterGet(self) == self

\* the outcomes the network can give the step an invocation is at
StepOutcomes(l) ==
    CASE l.pc = "get" -> GetOutcomes(l.url)
      [] l.pc = "generate" -> ProbeOutcomes
      [] l.pc = "personalize" -> PersonalizeOutcomes
      [] OTHER -> {NoReply}

\* an invocation takes its next step; only its own locals change
Step(i) ==
    /\ \E o \in StepOutcomes(invocations[i]) :
         invocations' = [invocations EXCEPT
                           ![i] = PipelineStep(@, job_scraper, gemini_service, o)]
    /\ UNCHANGED gemini_service
    /\ UNCHANGED <<avars, svars, cvars, pvars, hvars, dvars>>

\* _is_valid_url
InvokeValidate(i) ==
    /\ invocations[i].pc = "validate"
    /\ Step(i)
    /\ UNCHANGED job_scraper

\* requests.get(url, headers=self.headers, timeout=self.timeout)
InvokeGet(i) ==
    /\ invocations[i].pc = "get"
    /\ Step(i)
    /\ job_scraper' = ScraperAfterGet(job_scraper)

\* BeautifulSoup, the extraction and the success record
InvokeExtract(i) ==
    /\ invocations[i].pc = "extract"
    /\ Step(i)
    /\ UNCHANGED job_scraper

\* analyze_job_posting: self.client.models.generate_content
InvokeGenerate(i) ==
    /\ invocations[i].pc = "generate"
    /\ Step(i)
    /\ UNCHANGED job_scraper

\* analyze_job_posting: _clean_json_response and json.loads
InvokeParse(i) ==
    /\ invocations[i].pc = "parse"
    /\ Step(i)
    /\ UNCHANGED job_scraper

\* personalize_cover_letter: self.client.models.generate_content
InvokePersonalize(i) ==
    /\ invocations[i].pc = "personalize"
    /\ Step(i)
    /\ UNCHANGED job_scraper

\* personalize_cover_letter: _create_fallback_cover_letter
InvokeFallback(i) ==
    /\ invocations[i].pc = "fallback"
    /\ Step(i)
    /\ UNCHANGED job_scraper

InvocationUrls ==
    {<<"https", ":", "//", "www.monster.com">>, <<"not-a-url">>}

InvocationTemplates == {DefaultCoverLetter}

ServicesIdle ==
    /\ job_scraper = ScraperFields
    /\ gemini_service = GeminiFields
    /\ invocations = [i \in Invocations |-> [Locals(<<>>, <<>>) EXCEPT !.pc = "off"]]

AnalyzeIdle ==
    /\ jobText = <<>>
    /\ jobUrl = <<>>
    /\ aPc = "off"
    /\ aOutcome = [kind |-> "none", text |-> <<>>, parts |-> NoParts]
    /\ resultText = Unbound
    /\ aResult = NoValue
    /\ aPath = "none"
    /\ genCalls = 0

ScrapeIdle ==
    /\ sUrl = <<>>
    /\ sPc = "off"
    /\ getLog = <<>>
    /\ sResponse = NoResponse
    /\ extraction = NoExtraction
    /\ sResult = NoResult

ScrapeInit ==
    /\ sUrl \in ScrapeUrls
    /\ sPc = "idle"
    /\ getLog = <<>>
    /\ sResponse = NoResponse
    /\ extraction = NoExtraction
    /\ sResult = NoResult
    /\ AnalyzeIdle
    /\ CleanIdle
    /\ PersonalizeIdle
    /\ ChatIdle
    /\ DatabaseIdle
    /\ ServicesIdle

ScrapeNext == ScrapeValidate \/ ScrapeGet \/ ScrapeExtract

SpecScrape == ScrapeInit /\ [][ScrapeNext]_vars

AnalyzeInit ==
    /\ jobText \in JobTexts
    /\ jobUrl \in AnalyzeUrls
    /\ aPc = "idle"
    /\ aOutcome = [kind |-> "none", text |-> <<>>, parts |-> NoParts]
    /\ resultText = Unbound
    /\ aResult = NoValue
    /\ aPath = "none"
    /\ genCalls = 0
    /\ ScrapeIdle
    /\ CleanIdle
    /\ PersonalizeIdle
    /\ ChatIdle
    /\ DatabaseIdle
    /\ ServicesIdle

AnalyzeNext == AnalyzeGenerate \/ AnalyzeParse

SpecAnalyze == AnalyzeInit /\ [][AnalyzeNext]_vars

CleanInit ==
    /\ cleanIn \in CleanTexts
    /\ cleanOuts = <<>>
    /\ AnalyzeIdle
    /\ ScrapeIdle
    /\ PersonalizeIdle
    /\ ChatIdle
    /\ DatabaseIdle
    /\ ServicesIdle

CleanNext == CleanApply

SpecClean == CleanInit /\ [][CleanNext]_vars

PersonalizeInit ==
    /\ template \in Templates \cup ProbeTemplates
    /\ pJobInfo \in JobInfosFor(template)
    /\ pPc = "idle"
    /\ pOutcome = [kind |-> "none", text |-> <<>>]
    /\ pResult = <<>>
    /\ pPath = "none"
    /\ pCalls = 0
    /\ AnalyzeIdle
    /\ ScrapeIdle
    /\ CleanIdle
    /\ ChatIdle
    /\ DatabaseIdle
    /\ ServicesIdle

PersonalizeNext == PersonalizeGenerate \/ PersonalizeFallback

SpecPersonalize == PersonalizeInit /\ [][PersonalizeNext]_vars

\* the two operations of GeminiService, one call of either; analyze_job_posting
\* on the job texts that are tried under one outcome of each kind
GeminiInit == (AnalyzeInit /\ jobText \notin ProbeJobTexts) \/ PersonalizeInit

GeminiNext == AnalyzeNext \/ PersonalizeNext

SpecGemini == GeminiInit /\ [][GeminiNext]_vars

\* the database, its routes and the clock
DatabaseInit ==
    /\ DatabaseIdle
    /\ AnalyzeIdle
    /\ ScrapeIdle
    /\ CleanIdle
    /\ PersonalizeIdle
    /\ ChatIdle
    /\ ServicesIdle

DatabaseNext ==
    \/ InitDatabase
    \/ \E data \in CreateBodies : CreateTemplate(data)
    \/ \E template_id \in TemplateIds, data \in UpdateBodies :
           UpdateTemplate(template_id, data)
    \/ \E template_id \in TemplateIds : DeleteTemplate(template_id)
    \/ Tick

SpecDatabase == DatabaseInit /\ [][DatabaseNext]_vars

\* the stores a chat request may find: no template, the defaults, one type
\* only, a newer cover letter, two cover letters of the same second
PlainLetter == TemplateRow(3, "cover_letter", "Mine", MyLetter, 1)

TemplateStores ==
    {{}, DefaultTemplates(0, 0),
     {r \in DefaultTemplates(0, 0) : r.type = "cover_letter"},
     {r \in DefaultTemplates(0, 0) : r.type = "resume"},
     DefaultTemplates(0, 0) \cup {PlainLetter},
     DefaultTemplates(0, 1) \cup {PlainLetter}}

OldJob ==
    [id |-> 1, url |-> <<"https", ":", "//", "example.com">>,
     company_name |-> <<"Company">>, position_title |-> <<"Position">>,
     job_description |-> <<"T101">>, extracted_info |-> NoValue,
     generated_cover_letter |-> <<"Dear">>, session_id |-> "s1", created_at |-> 0]

ChatInit ==
    /\ request \in ChatRequests
    /\ chatPc = "idle"
    /\ answer = NoAnswer
    /\ stages = <<>>
    /\ tables = TRUE
    /\ templates \in TemplateStores
    /\ jobs \in {{}, {OldJob}}
    /\ sessions = {}
    /\ sqlite_sequence = [templates |-> 3, jobs |-> Cardinality(jobs)]
    /\ now = 1
    /\ dbReturn = NoReturn
    /\ AnalyzeIdle
    /\ ScrapeIdle
    /\ CleanIdle
    /\ PersonalizeIdle
    /\ ServicesIdle

ChatNext ==
    \/ ChatReceive
    \/ ChatAfterScrape
    \/ ChatAfterAnalyze
    \/ ChatAfterPersonalize
    \/ ScrapeNext
    \/ AnalyzeNext
    \/ PersonalizeNext

SpecChat == ChatInit /\ [][ChatNext]_vars

\* two invocations on the shared instances
ServicesInit ==
    /\ job_scraper = ScraperFields
    /\ gemini_service = GeminiFields
    /\ invocations \in [Invocations -> {Locals(u, t) : u \in InvocationUrls,
                                                      t \in InvocationTemplates}]
    /\ AnalyzeIdle
    /\ ScrapeIdle
    /\ CleanIdle
    /\ PersonalizeIdle
    /\ ChatIdle
    /\ DatabaseIdle

ServicesNext ==
    \E i \in Invocations :
        \/ InvokeValidate(i)
        \/ InvokeGet(i)
        \/ InvokeExtract(i)
        \/ InvokeGenerate(i)
        \/ InvokeParse(i)
        \/ InvokePersonalize(i)
        \/ InvokeFallback(i)

SpecServices == ServicesInit /\ [][ServicesNext]_vars

(***************************************************************************)
(* Claims about analyze_job_posting.                                       *)
(***************************************************************************)
Returned == aPc = "returned"
ReturnedDefault == aPc = "returned" /\ aPath = "default"
ReturnedParsed == aPc = "returned" /\ aPath = "parsed"

\* the default path was taken: the call failed or the response did not parse
CallFailedOrUnparsed ==
    \/ aOutcome.kind \in {"raise_json", "raise_other", "no_text"}
    \/ /\ aOutcome.kind = "text"
       /\ ~ParseJson(CleanJsonResponse(Strip(aOutcome.text))).ok

\* C1: for every job text, source URL and outcome of the completion call,
\* analyze_job_posting returns a value to its caller and never raises.
C1_NeverRaises == aPc # "raised"

\* C2 as stated: the returned record holds every one of the fourteen fields
\* for every outcome of the completion call, a response that parses as JSON
\* included.
C2_AllFieldsAlways ==
    Returned => aResult.kind = "dict" /\ DOMAIN aResult.fields = Keys

\* C2 amended: the returned record holds every one of the fourteen fields
\* whenever the call returns the default record (the completion call failed or
\* its response did not parse); a response that parses is returned as parsed,
\* whatever fields it has.
C2_DefaultHasAllFields ==
    (Returned /\ CallFailedOrUnparsed) =>
        aResult.kind = "dict" /\ DOMAIN aResult.fields = Keys

\* the response was text that did not parse, and the default record came back
C2_Witness ==
    /\ Returned
    /\ aOutcome.kind = "text"
    /\ CallFailedOrUnparsed
    /\ DOMAIN aResult.fields = Keys

FreeFields == {"company_name", "position_title"}
EmptyDefaults == {"department", "location", "job_type", "salary_range"}

HasLabel(s, labels) == \E i \in 1..Len(s) : Lower(s[i]) \in labels
FirstLabel(s, labels) == Min({i \in 1..Len(s) : Lower(s[i]) \in labels})
HasValueAfter(s, i) == \E j \in (i + 1)..Len(s) : ~IsLineBreak(s[j])

RECURSIVE FirstLine(_)
FirstLine(s) ==
    IF s = <<>> \/ IsLineBreak(Head(s)) THEN <<>>
    ELSE <<Head(s)>> \o FirstLine(Tail(s))

ValueAfter(s, i) == Strip(FirstLine(LStrip(SubSeq(s, i + 1, Len(s)))))

LabelledValue(s, labels, literal, got) ==
    /\ ~HasLabel(s, labels) => got = literal
    /\ (HasLabel(s, labels) /\ HasValueAfter(s, FirstLabel(s, labels))) =>
          got = ValueAfter(s, FirstLabel(s, labels))

\* C4: in the default record company_name is the trimmed value captured after
\* the first case-insensitive company:/employer:/organization: label of the job
\* text, and "Company" when the text has no such label; position_title likewise
\* with title:/position:/job: and "Position".
C4_DefaultNames ==
    ReturnedDefault =>
        /\ LabelledValue(jobText, CompanyLabels, <<"Company">>,
                         aResult.fields["company_name"])
        /\ LabelledValue(jobText, TitleLabels, <<"Position">>,
                         aResult.fields["position_title"])

\* two company labels, the first one in another case than the pattern's, and
\* no title label
C4_Witness ==
    /\ ReturnedDefault
    /\ jobText = <<"Company:", " ", "x", "employer:">>
    /\ aResult.fields["company_name"] = <<"x", "employer:">>
    /\ aResult.fields["position_title"] = <<"Position">>

IsWrapped == aOutcome.kind = "text" /\ aOutcome.parts.obj # <<>>

ReturnsTheObject ==
    /\ aPath = "parsed"
    /\ resultText.text = aOutcome.parts.obj
    /\ aResult = ParseJson(aOutcome.parts.obj).value

\* C5 as stated: for every response made of one valid JSON object, optionally
\* inside ```json fences, optionally preceded and followed by free text, the
\* cleaning step yields exactly the object's text and that object is returned.
C5_AnyFreeText == (Returned /\ IsWrapped) => ReturnsTheObject

\* C5 amended: the same, for free text that has no "{" before the object and no
\* "}" after it, and an object whose own text does not hold the marker ```json.
C5_BraceFreeText ==
    ( /\ Returned
      /\ IsWrapped
      /\ ~Contains(aOutcome.parts.pre, "{")
      /\ ~Contains(aOutcome.parts.post, "}")
      /\ ~Contains(aOutcome.parts.obj, "M") ) => ReturnsTheObject

C5_Witness ==
    /\ Returned
    /\ aOutcome.parts =
         [pre |-> <<"txt", "}">>, obj |-> <<"{", "\n", "m", "\n", "}">>,
          post |-> <<"{", "txt">>, fenced |-> TRUE]
    /\ ReturnsTheObject
    /\ DOMAIN aResult.fields = Keys

(***************************************************************************)
(* Claims about scrape_job_posting.                                        *)
(***************************************************************************)
ScrapeReturned == sPc = "returned"

\* the URLs the validator is to reject: no scheme, no host, or a netloc that
\* does not parse
Rejected(url) ==
    LET r == UrlParse(url) IN r.error \/ r.scheme = <<>> \/ r.netloc = <<>>

\* C6: for every URL the validator rejects (empty, no scheme, no host) the
\* call returns success=false, error "Invalid URL format", content "", and no
\* HTTP GET is issued at any point of the call.
C6_InvalidUrlNoGet ==
    (sPc # "idle" /\ Rejected(sUrl)) =>
        /\ sPc = "returned"
        /\ sResult.success = FALSE
        /\ sResult.error = <<"Invalid URL format">>
        /\ sResult.content = <<>>
        /\ getLog = <<>>

\* a URL with a scheme and no host
C6_Witness ==
    /\ ScrapeReturned
    /\ sUrl = <<"https", ":", "/", "example.com">>
    /\ sResult.error = <<"Invalid URL format">>
    /\ getLog = <<>>

\* C7: every record returned with success=false has content "", whichever
\* failure path produced it.
C7_FailureHasNoContent ==
    (ScrapeReturned /\ ~sResult.success) => sResult.content = <<>>

\* the parser rejected the body of a fetched page
C7_Witness ==
    /\ ScrapeReturned
    /\ ~sResult.success
    /\ sResult.error[1] = "Scraping error: "
    /\ sResult.content = <<>>

GetRaised == sResponse.kind = "raise"
GotStatus(S) == sResponse.kind = "response" /\ sResponse.status \in S

NetworkFailure ==
    /\ sResult.success = FALSE
    /\ sResult.error[1] = "Network error: "

ScrapingFailure ==
    /\ sResult.success = FALSE
    /\ sResult.error[1] = "Scraping error: "

\* C8 as stated: the call never raises; a connection error, a timeout or a
\* non-2xx status yields success=false with "Network error: ...", any other
\* exception while parsing, extracting or cleaning yields "Scraping error: ...".
C8_NonTwoXxIsNetworkError ==
    /\ sPc \in {"idle", "requesting", "fetched", "returned"}
    /\ ScrapeReturned =>
         /\ (GetRaised \/ GotStatus({304, 404, 500})) => NetworkFailure
         /\ (GotStatus({200}) /\ ~sResponse.parseable) => ScrapingFailure

\* C8 amended: the call never raises; a connection error, a timeout or a 4xx or
\* 5xx status yields success=false with "Network error: ...", and an exception
\* while parsing, extracting or cleaning the body of any other response
\* yields "Scraping error: ...".
C8_ErrorStatusIsNetworkError ==
    /\ sPc \in {"idle", "requesting", "fetched", "returned"}
    /\ ScrapeReturned =>
         /\ (GetRaised \/ GotStatus({404, 500})) => NetworkFailure
         /\ (GotStatus({200, 304}) /\ ~sResponse.parseable) => ScrapingFailure

C8_Witness ==
    /\ ScrapeReturned
    /\ GotStatus({404})
    /\ NetworkFailure

\* C9: a call issues at most one HTTP GET, to the given URL with the fixed
\* headers and timeout 10, and a call whose GET failed has returned its failure
\* record with that one GET issued.
C9_AtMostOneGet ==
    /\ Len(getLog) <= 1
    /\ \A i \in 1..Len(getLog) :
          getLog[i] = [url |-> sUrl, headers |-> Headers, timeout |-> 10]
    /\ (GetRaised \/ GotStatus({404, 500})) =>
          (ScrapeReturned /\ ~sResult.success /\ Len(getLog) = 1)

C9_Witness ==
    /\ ScrapeReturned
    /\ GetRaised
    /\ sResponse.detail = <<"Timeout">>
    /\ Len(getLog) = 1

\* the selectors of the cascade for a URL, in the order they are tried
Cascade(url) ==
    GetSiteSelectors(LowerUrl(UrlParse(url).netloc)) \o CommonSelectors

SiteCount(url) == Len(GetSiteSelectors(LowerUrl(UrlParse(url).netloc)))

Over100(doc, sel) ==
    /\ Select(doc, sel) # <<>>
    /\ TextLen(JoinSpace(ElemTexts(Select(doc, sel)))) > 100

\* C10: extraction tries the site-specific selectors, then the generic ones,
\* then the <body> text, then the whole-document text; it returns the joined
\* text of the first selector whose elements give more than 100 characters, a
\* selector giving 100 or fewer is skipped, and the body or document text is
\* returned only when no selector qualified.
C10_CascadeOrder ==
    (ScrapeReturned /\ sResult.success) =>
        LET doc == sResponse.doc
            sels == Cascade(sUrl)
            good == {k \in 1..Len(sels) : Over100(doc, sels[k])}
        IN  IF good # {}
            THEN /\ extraction.text = JoinSpace(ElemTexts(Select(doc, sels[Min(good)])))
                 /\ extraction.selector = sels[Min(good)]
                 /\ extraction.step =
                      IF Min(good) <= SiteCount(sUrl) THEN "site" ELSE "common"
            ELSE IF doc.hasBody
            THEN extraction.step = "body" /\ extraction.text = BodyText(doc)
            ELSE extraction.step = "document" /\ extraction.text = DocumentText(doc)

\* a site-specific selector and a generic one match an element of exactly 100
\* characters and are skipped; <main> qualifies
C10_Witness ==
    /\ ScrapeReturned
    /\ sResult.success
    /\ SiteCount(sUrl) > 0
    /\ Select(sResponse.doc, Cascade(sUrl)[1]) # <<>>
    /\ ~Over100(sResponse.doc, Cascade(sUrl)[1])
    /\ extraction.step = "common"
    /\ extraction.selector = Sel("tag", "main")

LinkedInHost(url) == SiteIn("linkedin.com", LowerUrl(UrlParse(url).netloc))

DescriptionText == Sel("class", "description__text")

\* a page fetched from a LinkedIn host that has a .description__text element
LinkedInPage ==
    /\ ScrapeReturned
    /\ sResult.success
    /\ LinkedInHost(sUrl)
    /\ Select(sResponse.doc, DescriptionText) # <<>>

\* C11 as stated: for a URL whose host contains linkedin.com and a page with a
\* .description__text element holding the job text, the content is produced by
\* the site-specific selector step.
C11_LinkedInSelectorAlways == LinkedInPage => extraction.step = "site"

\* C11 amended: for such a URL and page, the content is the joined text of the
\* .description__text elements, produced by the site-specific step, when that
\* text has more than 100 characters; when it has 100 or fewer, the selector is
\* skipped and the content comes from a later step.
C11_LinkedInSelectorOver100 ==
    LinkedInPage =>
        IF Over100(sResponse.doc, DescriptionText)
        THEN /\ extraction.step = "site"
             /\ extraction.selector = DescriptionText
             /\ extraction.text =
                  JoinSpace(ElemTexts(Select(sResponse.doc, DescriptionText)))
        ELSE extraction.selector # DescriptionText

\* a <main> of more than 100 characters comes first in the page, and the
\* .description__text element is taken all the same
C11_Witness ==
    /\ LinkedInPage
    /\ Len(sResponse.doc.elems) = 2
    /\ sResponse.doc.elems[1].tag = "main"
    /\ sResponse.doc.elems[1].text = <<"T101">>
    /\ sResponse.doc.elems[2].class = "description__text"
    /\ extraction.step = "site"
    /\ extraction.text = <<"T101">>

(***************************************************************************)
(* Claims about _clean_content.                                            *)
(***************************************************************************)
\* C12: _clean_content is idempotent: for every input text s,
\* _clean_content(_clean_content(s)) equals _clean_content(s).
C12_Idempotent == Len(cleanOuts) >= 2 => cleanOuts[2] = cleanOuts[1]

\* no pattern of the list matches anywhere in the text
NoBoilerplate(s) ==
    \A k \in 1..Len(PatternsToRemove) : \A i \in 1..Len(s) :
        MatchAt(s, i, PatternsToRemove[k]) = 0

\* C13: for every input text and every phrase of the fixed boilerplate set,
\* the output of _clean_content holds no case-insensitive occurrence of that
\* phrase, whatever text surrounds it in the input.
C13_NoBoilerplate == Len(cleanOuts) >= 1 => NoBoilerplate(cleanOuts[1])

(***************************************************************************)
(* Claims about personalize_cover_letter.                                  *)
(***************************************************************************)
CallFailed == pOutcome.kind \in {"raise", "no_text"}

FallbackReturned == pPc = "returned" /\ pPath = "fallback"

\* C14: when the completion call fails, personalize_cover_letter returns a
\* string and does not raise, for every template and every job_info, a
\* job_info that lacks any subset of the fields included.
C14_PersonalizeNeverRaises == pPc # "raised"

Halves == {"{company_", "name}"}

HasBrace(s) == \E i \in 1..Len(s) : s[i] \in Placeholders \cup Halves

\* no value the fallback substitutes holds a brace
PlainValues(job_info) ==
    \A k \in DOMAIN job_info.fields :
        LET v == job_info.fields[k]
        IN  /\ v.type = "str" => ~HasBrace(v.val)
            /\ v.type = "list" =>
                  \A i \in 1..Min({3, Len(v.val)}) : ~HasBrace(v.val[i])

\* every brace of the template belongs to one of the five placeholders
WholeTokens(tmpl) == \A i \in 1..Len(Fuse(tmpl)) : Fuse(tmpl)[i] \notin Halves

\* the text that stands for a token of the template once every placeholder is
\* replaced where it stands
ValueOf(tok, job_info) ==
    LET skills ==
          JoinWith(Take(Get(job_info, "key_requirements", JList(DefaultSkills)).val, 3),
                   <<", ">>)
    IN  CASE tok = "{company_name}" ->
               Get(job_info, "company_name", JStr(<<"Company">>)).val
          [] tok = "{position_title}" ->
               Get(job_info, "position_title", JStr(<<"Position">>)).val
          [] tok = "{relevant_skills}" -> skills
          [] tok = "{company_reasons}" ->
               Get(job_info, "company_description", JStr(DefaultReasons)).val
          [] tok = "{personalized_content}" -> PersonalizedContent(skills)
          [] OTHER -> <<tok>>

RECURSIVE Substituted(_, _)
Substituted(tmpl, job_info) ==
    IF tmpl = <<>> THEN <<>>
    ELSE ValueOf(Head(tmpl), job_info) \o Substituted(Tail(tmpl), job_info)

NoTokensAndNamesInPlace ==
    /\ \A i \in 1..Len(pResult) : pResult[i] \notin Placeholders
    /\ pResult = Fuse(Substituted(Fuse(template), pJobInfo))

\* C15 as stated: when the completion call fails, the returned letter holds
\* none of the five tokens and carries the company name and position title
\* where their tokens stood in the template.
C15_NoTokensLeft == FallbackReturned => NoTokensAndNamesInPlace

\* C15 amended: the same, provided every brace of the template belongs to one
\* of the five tokens and no substituted job_info value holds a brace.
C15_NoTokensLeftPlain ==
    (FallbackReturned /\ WholeTokens(template) /\ PlainValues(pJobInfo)) =>
        NoTokensAndNamesInPlace

\* the five placeholders, a job_info with only its two names, a call that raised
C15_Witness ==
    /\ FallbackReturned
    /\ pOutcome.kind = "raise"
    /\ DOMAIN pJobInfo.fields = {"company_name", "position_title"}
    /\ pResult =
         <<"Dear", "Test Corp", "Engineer", "professional experience", ", ",
           "strong communication skills",
           "your commitment to excellence and innovation">>
         \o PersonalizedContent(<<"professional experience", ", ",
                                  "strong communication skills">>)
         \o <<"Dear">>

\* the completion call answered with no text, or with the empty string
EmptyResult ==
    \/ pOutcome.kind = "no_text"
    \/ pOutcome.kind = "text" /\ pOutcome.text = <<>>

\* C16: when the completion call returns an empty result instead of raising,
\* the operation returns the fallback letter, as it does when the call raises.
C16_EmptyResultFallsBack ==
    (pPc = "returned" /\ EmptyResult) =>
        /\ pPath = "fallback"
        /\ pResult = CreateFallbackCoverLetter(template, pJobInfo).text

\* the skills text of the claim: the first three key_requirements joined with
\* ", ", the default pair when the list is empty or absent
ClaimedSkills(job_info) ==
    LET present == "key_requirements" \in DOMAIN job_info.fields
        reqs == job_info.fields["key_requirements"].val
    IN  IF present /\ reqs # <<>> THEN JoinWith(Take(reqs, 3), <<", ">>)
        ELSE <<"professional experience", ", ", "strong communication skills">>

\* C19: in the fallback letter {relevant_skills} is replaced by the first three
\* entries of key_requirements joined with ", ", and by the default pair when
\* key_requirements is empty or absent.
C19_RelevantSkills ==
    ( /\ FallbackReturned
      /\ \A i \in 1..Len(template) : template[i] \in {"{relevant_skills}", "Dear"} ) =>
        pResult = ReplaceTok(template, "{relevant_skills}", ClaimedSkills(pJobInfo))

(***************************************************************************)
(* Claims about _is_valid_url.                                             *)
(***************************************************************************)
\* the URL reads scheme "://" host: scheme characters up to the first ":",
\* then "//", then a host that is not empty and whose brackets pair up
SchemeAndHost(url) ==
    LET a == UrlAtoms(url)
    IN  \E c \in 2..Len(a) :
            /\ a[c] = ":"
            /\ \A i \in 1..(c - 1) : IsSchemeTok(a[i])
            /\ c + 3 <= Len(a)
            /\ a[c + 1] = "/" /\ a[c + 2] = "/"
            /\ a[c + 3] \notin {"/", "?", "#"}
            /\ LET stops == {j \in (c + 3)..Len(a) : a[j] \in {"/", "?", "#"}}
                   last == IF stops = {} THEN Len(a) ELSE Min(stops) - 1
                   host == SubSeq(a, c + 3, last)
               IN  Contains(host, "[") <=> Contains(host, "]")

JudgedInvalid == sResult.error = <<"Invalid URL format">>

TestInvalidUrls ==
    {<<"not-a-url">>, <<"example.com">>, <<"ftp", ":", "//", "example.com">>, <<>>}

\* C18: _is_valid_url returns false for each URL of the test's rejected set:
\* 'not-a-url', 'example.com', the empty string and 'ftp://example.com'.
C18_TestRejectedSet ==
    (sPc # "idle" /\ sUrl \in TestInvalidUrls) => JudgedInvalid

(***************************************************************************)
(* Claims about the parsed answer of analyze_job_posting.                  *)
(***************************************************************************)
\* the candidate payload of the response: the text after trimming and cleaning
Candidate == CleanJsonResponse(Strip(aOutcome.text))

\* C20: when the candidate payload extracted from the model's response parses
\* as JSON, analyze_job_posting returns the parsed value unchanged: no key is
\* added, removed or defaulted, and the default record is not consulted.
C20_ParsedReturnedAsIs ==
    (Returned /\ aOutcome.kind = "text" /\ ParseJson(Candidate).ok) =>
        /\ aPath = "parsed"
        /\ aResult = ParseJson(Candidate).value
        /\ resultText.text = Candidate

\* the answer is an object without members, inside fences and free text, and
\* the job text has a company label the default record would have used
C20_Witness ==
    /\ Returned
    /\ jobText = <<"Company:", " ", "x", "\n">>
    /\ aOutcome.parts = [pre |-> <<"txt">>, obj |-> <<"{", "}">>,
                         post |-> <<"txt">>, fenced |-> TRUE]
    /\ aPath = "parsed"
    /\ aResult = [kind |-> "dict", fields |-> NoFields]

(***************************************************************************)
(* Claims about the number of completion calls.                            *)
(***************************************************************************)
AnalyzeStarted == aPc \in {"got_text", "returned", "raised"}
PersonalizeStarted == pPc \in {"failed", "returned", "raised"}

\* C21: a call of analyze_job_posting and a call of personalize_cover_letter
\* each invoke the completion call exactly once: no call before the operation
\* starts, one from then on, and the fallback after a failed call or an
\* unparseable response makes no further call.
C21_OneCompletionCall ==
    /\ genCalls = (IF AnalyzeStarted THEN 1 ELSE 0)
    /\ pCalls = (IF PersonalizeStarted THEN 1 ELSE 0)

\* analyze_job_posting returned the default record after a failed call
C21_WitnessAnalyzeFallback ==
    /\ ReturnedDefault
    /\ aOutcome.kind = "raise_other"
    /\ genCalls = 1

(***************************************************************************)
(* Claims about the page title, the site table and the generic selectors.  *)
(***************************************************************************)
FirstWithTag(doc, tag) == Min({i \in 1..Len(doc.elems) : doc.elems[i].tag = tag})

HasTag(doc, tag) == \E i \in 1..Len(doc.elems) : doc.elems[i].tag = tag

\* C22: the page title of a successful scrape is the stripped text of the
\* first <title> element when the document has one, otherwise that of the
\* first <h1> element when it has one, otherwise the literal "Job Posting".
C22_PageTitle ==
    (ScrapeReturned /\ sResult.success) =>
        LET doc == sResponse.doc
        IN  sResult.title =
              IF HasTag(doc, "title")
              THEN Strip(doc.elems[FirstWithTag(doc, "title")].text)
              ELSE IF HasTag(doc, "h1")
              THEN Strip(doc.elems[FirstWithTag(doc, "h1")].text)
              ELSE <<"Job Posting">>

\* an <h1> comes before the <title> in the document and the title is the
\* text of the <title>
C22_Witness ==
    /\ ScrapeReturned
    /\ sResult.success
    /\ Len(sResponse.doc.elems) = 2
    /\ sResponse.doc.elems[1].tag = "h1"
    /\ sResponse.doc.elems[2].tag = "title"
    /\ sResponse.doc.elems[1].text = <<"T50">>
    /\ sResponse.doc.elems[2].text = <<"\n", "T100", " ", "Sign", " ", "in", "\n">>
    /\ sResult.title = <<"T100", " ", "Sign", " ", "in">>

TableOrder ==
    <<"linkedin.com", "indeed.com", "glassdoor.com", "monster.com",
      "ziprecruiter.com", "careerbuilder.com">>

ListOfSite(site) ==
    CHOOSE i \in 1..Len(SiteSelectors) : SiteSelectors[i].site = site

SelectorsOfSite(site) == SiteSelectors[ListOfSite(site)].selectors

LowerHost(url) == LowerUrl(UrlParse(url).netloc)

NamesInHost(url) == {k \in 1..Len(TableOrder) : SiteIn(TableOrder[k], LowerHost(url))}

\* C24: the site-specific selector list used for a host is the list of the
\* first entry, in the order linkedin.com, indeed.com, glassdoor.com,
\* monster.com, ziprecruiter.com, careerbuilder.com, whose name is a
\* substring of the lower-cased host; a host containing none of the names
\* gets the empty list and its content never comes from the site step.
C24_FirstTableEntry ==
    (ScrapeReturned /\ sResult.success) =>
        IF NamesInHost(sUrl) = {}
        THEN extraction.selectors = <<>> /\ extraction.step # "site"
        ELSE extraction.selectors = SelectorsOfSite(TableOrder[Min(NamesInHost(sUrl))])

\* the host holds indeed.com before linkedin.com; the list is LinkedIn's,
\* whose entry comes first in the table
C24_Witness ==
    /\ ScrapeReturned
    /\ sResult.success
    /\ NamesInHost(sUrl) = {1, 2}
    /\ extraction.selectors[1] = Sel("class", "description__text")
    /\ extraction.step = "site"

\* the place of a generic selector in the order of the claim
ClaimedRank(sel) ==
    CASE sel.by \in {"class*", "id*"} /\ sel.name = "job-description" -> 1
      [] sel.by \in {"class*", "id*"} /\ sel.name = "description" -> 2
      [] sel.by \in {"class*", "id*"} /\ sel.name = "job-detail" -> 3
      [] sel = Sel("tag", "main") -> 4
      [] sel = Sel("class", "content") -> 5
      [] sel = Sel("id", "content") -> 6
      [] sel = Sel("tag", "article") -> 7
      [] OTHER -> 8

GenericSelectors ==
    {Sel("class*", "job-description"), Sel("id*", "job-description"),
     Sel("class*", "description"), Sel("id*", "description"),
     Sel("class*", "job-detail"), Sel("tag", "main"), Sel("class", "content"),
     Sel("id", "content"), Sel("tag", "article")}

FromGeneric == ScrapeReturned /\ sResult.success /\ extraction.step = "common"

\* C26 as stated: the generic selectors are tried in the order class or id
\* containing "job-description", then "description", then "job-detail", then
\* main, .content, #content, article; of two qualifying selectors the text of
\* the one earlier in this order is returned.
C26_ClaimedOrder ==
    FromGeneric =>
        \A sel \in GenericSelectors :
            Over100(sResponse.doc, sel) =>
                ClaimedRank(extraction.selector) <= ClaimedRank(sel)

CodeOrder ==
    << Sel("class*", "job-description"), Sel("class*", "job-detail"),
       Sel("class*", "description"), Sel("id*", "job-description"),
       Sel("id*", "description"), Sel("tag", "main"), Sel("class", "content"),
       Sel("id", "content"), Sel("tag", "article") >>

Qualifying(doc) == {k \in 1..Len(CodeOrder) : Over100(doc, CodeOrder[k])}

\* C26 amended: the generic selectors are tried in the order class containing
\* "job-description", class containing "job-detail", class containing
\* "description", id containing "job-description", id containing
\* "description", main, .content, #content, article; when the content comes
\* from the generic step it is the joined text of the first qualifying selector
\* in this order.
C26_CodeOrder ==
    FromGeneric =>
        /\ Qualifying(sResponse.doc) # {}
        /\ extraction.selector = CodeOrder[Min(Qualifying(sResponse.doc))]
        /\ extraction.text = SelectedText(sResponse.doc, extraction.selector)

\* a class with "job-detail" and a class with "description" both qualify and
\* the text is that of the job-detail element
C26_Witness ==
    /\ FromGeneric
    /\ Over100(sResponse.doc, Sel("class*", "job-detail"))
    /\ Over100(sResponse.doc, Sel("class*", "description"))
    /\ ~Over100(sResponse.doc, Sel("class*", "job-description"))
    /\ extraction.selector = Sel("class*", "job-detail")

(***************************************************************************)
(* Claims about what the default record depends on.                        *)
(***************************************************************************)
\* C28: the default record is a function of the job text alone: whatever the
\* source URL and whatever sent the call to the default path, the record
\* returned is the one built from the job text under any other source URL.
C28_DefaultFromJobTextAlone ==
    ReturnedDefault =>
        \A u \in AnalyzeUrls \cup ProbeUrls : aResult = DefaultRecord(jobText, u)

\* the default record of a job text with a label, returned under a source URL
\* after a response that did not parse
C28_Witness ==
    /\ ReturnedDefault
    /\ jobUrl = <<"https", ":", "//", "example.com">>
    /\ aOutcome.kind = "text"
    /\ aResult.fields["company_name"] # <<"Company">>

(***************************************************************************)
(* Claims about invocations that interleave on the shared instances.       *)
(***************************************************************************)
\* the network responses an invocation was given
NetOf(l) == [response |-> l.response, completion |-> l.completion, reply |-> l.reply]

\* C23: the service operations write no field of the shared instances, and
\* an invocation that interleaves with another one ends with exactly the
\* request, scrape record, job info and letter that it ends with when it
\* runs alone on the same URL and template with the same network responses.
C23_Reentrant ==
    /\ job_scraper = ScraperFields
    /\ gemini_service = GeminiFields
    /\ \A i \in Invocations :
         Over(invocations[i]) =>
             invocations[i] = RunAlone(Locals(invocations[i].url,
                                              invocations[i].template),
                                       NetOf(invocations[i]))

\* one invocation has returned a letter for a page while the other, on the
\* same URL with another response, is in the middle of analyze_job_posting
C23_Witness ==
    /\ invocations[1].pc = "done"
    /\ invocations[1].scrape_result.success
    /\ invocations[1].reply.kind = "text"
    /\ invocations[2].pc = "parse"
    /\ invocations[2].url = invocations[1].url
    /\ invocations[2].response # invocations[1].response

(***************************************************************************)
(* Claims about the chat route.                                            *)
(***************************************************************************)
StageOrder == <<"scrape", "analyze", "personalize">>

\* C25: within one chat request the service calls are started in the order
\* scrape, analyze, personalize, each at most once; analyze is started only
\* after scrape has returned and personalize only after analyze has returned;
\* a call that has not been started has not run, and when the request is
\* answered no call is under way.
C25_StagesInOrder ==
    /\ Len(stages) <= Len(StageOrder)
    /\ stages = SubSeq(StageOrder, 1, Len(stages))
    /\ (sPc # "off" <=> Len(stages) >= 1)
    /\ (aPc # "off" <=> Len(stages) >= 2)
    /\ (pPc # "off" <=> Len(stages) >= 3)
    /\ (aPc # "off" => sPc = "returned")
    /\ (pPc # "off" => aPc = "returned")
    /\ (chatPc = "answered" =>
          /\ sPc \in {"off", "returned"}
          /\ aPc \in {"off", "returned", "raised"}
          /\ pPc \in {"off", "returned", "raised"})

\* a request answered with success after the three calls
C25_Witness ==
    /\ chatPc = "answered"
    /\ answer.status = "success"
    /\ stages = StageOrder
    /\ pPath = "fallback"

\* the job rows this request stored
NewJobs == jobs \ {OldJob}

HasTemplate(template_type) == \E r \in templates : r.type = template_type

\* C27: a chat request stores a job row and answers "success" only when the
\* scrape succeeded, the cleaned content has at least 100 characters and a
\* cover-letter template and a resume template exist; every other answer is
\* an error and stores no row, no row is stored before the answer, and a
\* success answer goes with exactly one stored row, the one for this URL.
C27_RowOnlyOnSuccess ==
    IF chatPc = "answered" /\ answer.status = "success"
    THEN /\ answer.code = 200
         /\ sResult.success
         /\ TextLen(sResult.content) >= 100
         /\ HasTemplate("cover_letter")
         /\ HasTemplate("resume")
         /\ Cardinality(NewJobs) = 1
         /\ \A j \in NewJobs :
              /\ j.url = sUrl
              /\ j.generated_cover_letter = pResult
              /\ j.id = dbReturn.rowid
    ELSE /\ NewJobs = {}
         /\ (chatPc = "answered" => answer.code >= 400)

\* a success answer for a page whose content has exactly 100 characters, in a
\* store that already held a job row
C27_Witness ==
    /\ chatPc = "answered"
    /\ answer.status = "success"
    /\ TextLen(sResult.content) = 100
    /\ OldJob \in jobs
    /\ Cardinality(jobs) = 2

(***************************************************************************)
(* Claims about the templates table.                                       *)
(***************************************************************************)
\* C29: init_database inserts the two default templates, one cover_letter
\* and one resume, only when the templates table is empty; run on a store
\* that holds a template it leaves the set of templates unchanged.
C29_DefaultsOnlyWhenEmpty ==
    [][InitDatabase =>
         IF templates = {}
         THEN /\ Cardinality(templates') = 2
              /\ \E r \in templates' :
                   r.type = "cover_letter" /\ r.name = "Default Cover Letter"
              /\ \E r \in templates' :
                   r.type = "resume" /\ r.name = "Default Resume"
         ELSE templates' = templates]_vars

\* init_database has run on a store whose only template is one a user
\* created: the defaults did not come back
C29_Witness ==
    /\ dbReturn.op = "init_database"
    /\ Cardinality(templates) = 1
    /\ \A r \in templates : r.name = "Mine"

Stored(template_id) == \E r \in templates : r.id = template_id

Others(rows, template_id) == {r \in rows : r.id # template_id}

Accepted(data) == ~NoData(data) /\ data.name # "" /\ data.content # <<>>

\* C30: update_template and delete_template with an id that names no stored
\* template return false, leave every template as it was and the route
\* answers 404; with the id of a stored template they return true, update
\* sets the name, content and update time of that row, delete removes that
\* row, and every other template is unchanged.
C30_OnlyThatTemplate ==
    [][/\ \A template_id \in TemplateIds, data \in UpdateBodies :
            (Accepted(data) /\ UpdateTemplate(template_id, data)) =>
                IF Stored(template_id)
                THEN /\ dbReturn'.bool
                     /\ answer'.code = 200
                     /\ Others(templates', template_id) = Others(templates, template_id)
                     /\ \E r \in templates :
                          /\ r.id = template_id
                          /\ templates' \ Others(templates', template_id) =
                               {[r EXCEPT !.name = data.name,
                                          !.content = data.content,
                                          !.updated_at = now]}
                ELSE /\ ~dbReturn'.bool
                     /\ answer'.code = 404
                     /\ templates' = templates
       /\ \A template_id \in TemplateIds :
            DeleteTemplate(template_id) =>
                IF Stored(template_id)
                THEN /\ dbReturn'.bool
                     /\ answer'.code = 200
                     /\ templates' = Others(templates, template_id)
                ELSE /\ ~dbReturn'.bool
                     /\ answer'.code = 404
                     /\ templates' = templates]_vars

\* an update with an id that was deleted: false, 404, and the stored
\* templates are still there
C30_Witness ==
    /\ dbReturn.op = "update_template"
    /\ ~dbReturn.bool
    /\ answer.code = 404
    /\ Cardinality(templates) >= 2

====
